---- MODULE Spec2Model ----
(***************************************************************************)
(* Voice-note transport of the room page (src/unnamed/part_000, the        *)
(* VoiceNotesPage component and its helpers).                              *)
(*                                                                         *)
(* One client is a React component: its state (voiceNotes), its refs       *)
(* (receivedChunksRef, sentChunksCacheRef), the timers it has armed and    *)
(* the Room it holds.  Callbacks close over the voiceNotes of the render   *)
(* that created them; a state update becomes visible to the callbacks,     *)
(* and the effects whose dependencies changed are re-run, only at the      *)
(* next commit (action Commit).  Datagrams and timers are events of the    *)
(* single event loop and may run between a state update and that commit.   *)
(*                                                                         *)
(* Texts (base64) are sequences over 0..64 (64 is the padding '='), byte   *)
(* buffers are sequences over 0..255.                                      *)
(***************************************************************************)
EXTENDS Integers, Sequences, FiniteSets, TLC

\* ------------------------------------------------------------------ bounds
\* Scaled stand-in for CHUNK_SIZE = 30 * 1024 (characters per chunk).
CHUNK_SIZE == 4
\* Scaled stand-in for the 0x8000 block of arrayBufferToBase64.
chunkSize == 2
\* Longest byte buffer a note carries in the permutation specification.
MaxBytes == 7
\* Datagrams one client handles in one behaviour.
MaxRecv == 5
\* Playbacks one client starts in one behaviour.
MaxPlays == 2
\* request-chunks packets a sender is handed
MaxAsk == 2
\* Times the system clock of one machine is set back in one behaviour.
MaxSetBack == 1

Peers == {"p1", "p2"}
NoteIds == {"n1", "n2"}
ByteVals == {0, 77, 255}
NoteStatus == {"sent", "delivered", "played", "failed"}
\* the statuses a client puts into a status-update (processCompleteNote, onplay)
AckStatus == {"delivered", "played"}
\* identity of the remote participant the environment's datagrams come from
Remote == "remote"

VARIABLES
    room,               \* room[p]: "undefined" (lobby) | "Connected" | "Disconnecting"
                        \*   (disconnect() called, room.state still Connected) | "Disconnected"
    voiceNotes,         \* voiceNotes[p]: the React state, newest note first
    renderedNotes,      \* voiceNotes[p] as captured by the callbacks of the last commit
    depsChanged,        \* depsChanged[p]: voiceNotes got a new identity since the last commit
    receivedChunksRef,  \* receivedChunksRef[p][noteId]: inbound transfer
    sentChunksCacheRef, \* sentChunksCacheRef[p][noteId]: outbound cache entry
    timers,             \* timers[p]: live setTimeout handles of the recovery deadline
    nextTimer,          \* nextTimer[p]: next handle setTimeout returns
    sentLog,            \* sentLog[p]: packets handed to the transport by broadcastPacket
    failedNotice,       \* failedNotice[p][noteId]: "Failed to receive a voice note." shown
    noteBytes,          \* noteBytes[noteId]: the buffer the note's sender encoded
    inFlight,           \* inFlight[p]: datagrams on their way to p
    lastPacket,         \* lastPacket[p]: the datagram p handled last (history)
    nRecv,              \* nRecv[p]: number of datagrams handled (history)
    lastRecording,      \* lastRecording[p]: the state holds a recorded blob and its url
    renderedRecording,  \* lastRecording[p] as captured by handleSendNote at the last commit
    send,               \* send[p]: the running handleSendNote (its locals and position)
    pubLog,             \* pubLog[p]: the publishData calls of handleSendNote and their outcome
    cacheTimers,        \* cacheTimers[p]: live setTimeout handles of the cache retention
    resend,             \* resend[p]: the running request-chunks handler (its loop)
    player,             \* player[p]: audioPlayerRef and the note handlePlayPause captured
    relayed,            \* relayed[p]: how many packets of sentLog[p] reached the peer
    clock,              \* clock[p]: the reading of Date.now() on p's machine that the next
                        \*   note id takes (it has advanced by the time of the next send)
    recorder            \* recorder[p]: useAudioRecorder (recordingStatus, the MediaRecorder,
                        \*   its pending stop event, the interval) and the last 'status' told

\* the state of the sending side and of playback
sendVars == <<lastRecording, renderedRecording, send, pubLog, cacheTimers, resend,
              player, relayed, clock, recorder>>

vars == <<room, voiceNotes, renderedNotes, depsChanged, receivedChunksRef,
          sentChunksCacheRef, timers, nextTimer, sentLog, failedNotice,
          noteBytes, inFlight, lastPacket, nRecv, lastRecording, renderedRecording,
          send, pubLog, cacheTimers, resend, player, relayed, clock, recorder>>

\* ------------------------------------------------------------- sequences
Min(a, b) == IF a < b THEN a ELSE b

RECURSIVE Flatten(_)
Flatten(ss) == IF ss = <<>> THEN <<>> ELSE Head(ss) \o Flatten(Tail(ss))

\* Array.prototype.filter(i => i !== x) / map on a sequence
RECURSIVE FilterNot(_, _)
FilterNot(s, x) ==
    IF s = <<>> THEN <<>>
    ELSE (IF Head(s) # x THEN <<Head(s)>> ELSE <<>>) \o FilterNot(Tail(s), x)

MapSeq(s, F(_)) == [i \in 1..Len(s) |-> F(s[i])]

RECURSIVE SeqsUpTo(_, _)
SeqsUpTo(S, n) ==
    IF n = 0 THEN {<<>>}
    ELSE SeqsUpTo(S, n - 1) \cup
         {Append(s, x) : s \in {t \in SeqsUpTo(S, n - 1) : Len(t) = n - 1}, x \in S}

\* the elements of a set of numbers in ascending order
RECURSIVE Ascending(_)
Ascending(S) ==
    IF S = {} THEN <<>>
    ELSE LET m == CHOOSE x \in S : \A y \in S : x <= y
         IN  <<m>> \o Ascending(S \ {m})

\* ---------------------------------------------------------- EncodingUtils
Pad == 64
\* what a throwing atob leaves instead of a buffer
Throw == <<-1>>

RECURSIVE btoa(_)
btoa(b) ==
    IF Len(b) = 0 THEN <<>>
    ELSE IF Len(b) = 1 THEN <<b[1] \div 4, (b[1] % 4) * 16, Pad, Pad>>
    ELSE IF Len(b) = 2
         THEN <<b[1] \div 4, (b[1] % 4) * 16 + (b[2] \div 16), (b[2] % 16) * 4, Pad>>
    ELSE <<b[1] \div 4, (b[1] % 4) * 16 + (b[2] \div 16),
           (b[2] % 16) * 4 + (b[3] \div 64), b[3] % 64>>
         \o btoa(SubSeq(b, 4, Len(b)))

\* variant: each block is taken one byte short
RECURSIVE BinaryFromShort(_, _)
BinaryFromShort(bytes, i) ==
    IF i >= Len(bytes) THEN <<>>
    ELSE SubSeq(bytes, i + 1, Min(i + chunkSize - 1, Len(bytes)))
         \o BinaryFromShort(bytes, i + chunkSize)

\* the loop of arrayBufferToBase64: binary += String.fromCharCode(block)
RECURSIVE BinaryFrom(_, _)
BinaryFrom(bytes, i) ==
    IF i >= Len(bytes) THEN <<>>
    ELSE SubSeq(bytes, i + 1, Min(i + chunkSize, Len(bytes)))
         \o BinaryFrom(bytes, i + chunkSize)

arrayBufferToBase64(buffer) == btoa(BinaryFrom(buffer, 0))

RECURSIVE DecodeSextets(_)
DecodeSextets(s) ==
    IF Len(s) <= 1 THEN <<>>
    ELSE IF Len(s) = 2 THEN <<s[1] * 4 + (s[2] \div 16)>>
    ELSE IF Len(s) = 3
         THEN <<s[1] * 4 + (s[2] \div 16), (s[2] % 16) * 16 + (s[3] \div 4)>>
    ELSE <<s[1] * 4 + (s[2] \div 16), (s[2] % 16) * 16 + (s[3] \div 4),
           (s[3] % 4) * 64 + s[4]>>
         \o DecodeSextets(SubSeq(s, 5, Len(s)))

\* window.atob: up to two '=' are dropped from a text whose length is a
\* multiple of 4; a remaining '=' or a length of 4k+1 throws.
atob(text) ==
    LET n == Len(text)
        cut == IF n > 0 /\ n % 4 = 0
               THEN (IF text[n] = Pad
                     THEN (IF text[n - 1] = Pad THEN 2 ELSE 1)
                     ELSE 0)
               ELSE 0
        data == SubSeq(text, 1, n - cut)
    IN  IF Len(data) % 4 = 1 \/ \E i \in 1..Len(data) : data[i] \notin 0..63
        THEN Throw
        ELSE DecodeSextets(data)

base64ToArrayBuffer(base64) == atob(base64)

\* ------------------------------------------------------ chunking (sender)
\* variant: the count is rounded down
TotalChunksFloor(base64Audio) == Len(base64Audio) \div CHUNK_SIZE

\* Math.ceil(base64Audio.length / CHUNK_SIZE)
TotalChunks(base64Audio) == (Len(base64Audio) + CHUNK_SIZE - 1) \div CHUNK_SIZE

\* chunks.push(base64Audio.substring(i * CHUNK_SIZE, (i + 1) * CHUNK_SIZE))
ChunksOf(base64Audio) ==
    [k \in 1..TotalChunks(base64Audio) |->
        SubSeq(base64Audio, (k - 1) * CHUNK_SIZE + 1,
               Min(k * CHUNK_SIZE, Len(base64Audio)))]

\* ----------------------------------------------------------------- packets
NoText == <<>>
Packet(type, noteId, index, chunk, total, status, missingIndexes) ==
    [type |-> type, noteId |-> noteId, index |-> index, chunk |-> chunk,
     total |-> total, status |-> status, missingIndexes |-> missingIndexes]

VoiceChunk(noteId, index, chunk, total) ==
    Packet("voice-chunk", noteId, index, chunk, total, "", <<>>)
ChunkResend(noteId, index, chunk, total) ==
    Packet("chunk-resend", noteId, index, chunk, total, "", <<>>)
VoiceEnd(noteId, totalChunks) ==
    Packet("voice-end", noteId, 0, NoText, totalChunks, "", <<>>)
RequestChunks(noteId, missingIndexes) ==
    Packet("request-chunks", noteId, 0, NoText, 0, "", missingIndexes)
StatusUpdate(noteId, status) ==
    Packet("status-update", noteId, 0, NoText, 0, status, <<>>)
DeleteNote(noteId) ==
    Packet("delete-note", noteId, 0, NoText, 0, "", <<>>)
\* no datagram yet
NoPacket == Packet("", "", 0, NoText, 0, "", <<>>)

\* The datagrams of note n as its sender puts them on the wire
\* (handleSendNote: encode, chunk, voice-chunk 0..total-1, voice-end).
WireText(n) == arrayBufferToBase64(noteBytes[n])
WireChunks(n) == ChunksOf(WireText(n))
WireTotal(n) == TotalChunks(WireText(n))
ChunkPackets(n) ==
    {VoiceChunk(n, i, WireChunks(n)[i + 1], WireTotal(n)) : i \in 0..WireTotal(n) - 1}
ResendPackets(n) ==
    {ChunkResend(n, i, WireChunks(n)[i + 1], WireTotal(n)) : i \in 0..WireTotal(n) - 1}
EndPacket(n) == VoiceEnd(n, WireTotal(n))

\* ------------------------------------------------------- inbound transfers
\* a slot of `chunks` that holds null
Null == <<-1>>
NoTransfer == [present |-> FALSE, chunks |-> <<>>, hasEnd |-> FALSE,
               totalChunks |-> 0, timeoutId |-> 0]

\* no entry of sentChunksCacheRef
NoCache == [present |-> FALSE, chunks |-> <<>>, timeoutId |-> 0]

\* handleSendNote is not running
NoSend == [pc |-> "idle", noteId |-> "", index |-> 0, attempts |-> 0, chunks |-> <<>>,
           blob |-> ""]

\* useAudioRecorder before the first recording
NoRecorder == [status |-> "idle", media |-> "none", onstop |-> "none", interval |-> FALSE,
               told |-> "", denied |-> FALSE]

\* the request-chunks handler is not running
NoResend == [active |-> FALSE, noteId |-> "", todo |-> <<>>, chunks |-> <<>>]

\* audioPlayerRef.current is null
NoPlayer == [state |-> "none", noteId |-> "", status |-> "", sender |-> "", plays |-> 0]

\* new Array(total).fill(null)
NullArray(total) == [i \in 1..total |-> Null]

\* variant: the chunk goes to the first free slot, in order of arrival
StoreChunkByArrival(chunks, index, chunk) ==
    LET free == {i \in 1..Len(chunks) : chunks[i] = Null}
        at == IF free = {} THEN index + 1 ELSE CHOOSE i \in free : \A j \in free : i <= j
    IN  [i \in 1..(IF at > Len(chunks) THEN at ELSE Len(chunks)) |->
            IF i = at THEN chunk ELSE IF i <= Len(chunks) THEN chunks[i] ELSE Null]

\* chunks[index] = chunk  (index < total in the datagrams of a note)
StoreChunk(chunks, index, chunk) ==
    [i \in 1..(IF index + 1 > Len(chunks) THEN index + 1 ELSE Len(chunks)) |->
        IF i = index + 1 THEN chunk
        ELSE IF i <= Len(chunks) THEN chunks[i] ELSE Null]

\* chunks.join(''): a null slot joins as the empty string
Join(chunks) == Flatten(MapSeq(chunks, LAMBDA c : IF c = Null THEN <<>> ELSE c))

\* variant: the completeness test dropped
IncludesNullNever(chunks) == FALSE

\* variant: the completeness test inverted
IncludesNullAlways(chunks) == TRUE

\* chunks.includes(null)
IncludesNull(chunks) == \E i \in 1..Len(chunks) : chunks[i] = Null

\* chunks.filter(c => c !== null).length
ReceivedCount(chunks) == Cardinality({i \in 1..Len(chunks) : chunks[i] # Null})

\* variant: the indexes that are filled are requested
MissingIndexesFilled(chunks) ==
    FilterNot([i \in 1..Len(chunks) |-> IF chunks[i] # Null THEN i - 1 ELSE -1], -1)

\* chunks.map((c, i) => c === null ? i : -1).filter(i => i !== -1)
MissingIndexes(chunks) ==
    FilterNot([i \in 1..Len(chunks) |-> IF chunks[i] = Null THEN i - 1 ELSE -1], -1)

\* clearTimeout(id); id 0 stands for an undefined timeoutId
ClearTimeout(ts, id) == {t \in ts : t.id # id}

\* ------------------------------------------------------------------- notes
Note(id, sender, audio, status) ==
    [id |-> id, sender |-> sender, audio |-> audio, isPlaying |-> FALSE,
     status |-> status]

\* the positions of the notes with id noteId
NotesAt(notes, noteId) == {i \in 1..Len(notes) : notes[i].id = noteId}

\* voiceNotes.some(note => note.id === noteId)
NoteExists(notes, noteId) == \E i \in 1..Len(notes) : notes[i].id = noteId

\* room && room.state === ConnectionState.Connected.  Room.disconnect() is
\* asynchronous: the state stays Connected until the disconnect completes.
RoomConnected(p) == room[p] \in {"Connected", "Disconnecting"}

\* broadcastPacket called without awaiting its result: the packet is handed
\* to publishData only by a connected room.
BroadcastPacket(p, log, packet) ==
    IF RoomConnected(p) THEN Append(log, packet) ELSE log

\* prev.map(n => n.id === noteId ? { ...n, sender: getSender() } : n)
SetSender(notes, noteId, sender) ==
    MapSeq(notes, LAMBDA n : IF n.id = noteId THEN [n EXCEPT !.sender = sender] ELSE n)

\* prev.map(note => note.id === noteId ? { ...note, status } : note)
SetStatus(notes, noteId, status) ==
    MapSeq(notes, LAMBDA n : IF n.id = noteId THEN [n EXCEPT !.status = status] ELSE n)

\* prev.filter(note => note.id !== noteId)
RECURSIVE RemoveNote(_, _)
RemoveNote(notes, noteId) ==
    IF notes = <<>> THEN <<>>
    ELSE (IF Head(notes).id # noteId THEN <<Head(notes)>> ELSE <<>>)
         \o RemoveNote(Tail(notes), noteId)

\* processCompleteNote(noteId), run on the transfers rcv the handler has just
\* written.  It reads voiceNotes through its closure (renderedNotes).
\* resolved is FALSE when base64ToArrayBuffer throws and the promise rejects.
ProcessCompleteNote(p, noteId, rcv) ==
    LET transferData == rcv[noteId]
        same == [resolved |-> TRUE, notes |-> voiceNotes[p], rcv |-> rcv,
                 log |-> sentLog[p]]
    IN  IF ~transferData.present \/ ~transferData.hasEnd THEN same
        ELSE IF NoteExists(renderedNotes[p], noteId)
             THEN [same EXCEPT !.rcv = [rcv EXCEPT ![noteId] = NoTransfer]]
        ELSE LET audioBuffer == base64ToArrayBuffer(Join(transferData.chunks))
             IN  IF audioBuffer = Throw THEN [same EXCEPT !.resolved = FALSE]
                 ELSE [resolved |-> TRUE,
                       notes |-> <<Note(noteId, "unknown", audioBuffer, "delivered")>>
                                 \o voiceNotes[p],
                       rcv |-> [rcv EXCEPT ![noteId] = NoTransfer],
                       log |-> BroadcastPacket(p, sentLog[p],
                                               StatusUpdate(noteId, "delivered"))]

\* if (timeoutId) clearTimeout(timeoutId);
\* processCompleteNote(noteId).then(() => setVoiceNotes(... sender: getSender() ...))
CompleteTransfer(p, noteId, rcv, from) ==
    LET r == ProcessCompleteNote(p, noteId, rcv)
    IN  /\ timers' = [timers EXCEPT ![p] = ClearTimeout(@, rcv[noteId].timeoutId)]
        /\ receivedChunksRef' = [receivedChunksRef EXCEPT ![p] = r.rcv]
        /\ voiceNotes' = [voiceNotes EXCEPT ![p] =
                IF r.resolved THEN SetSender(r.notes, noteId, from) ELSE r.notes]
        /\ depsChanged' = [depsChanged EXCEPT ![p] = @ \/ r.resolved]
        /\ sentLog' = [sentLog EXCEPT ![p] = r.log]
        /\ UNCHANGED nextTimer

\* handleDataReceived, case 'voice-chunk' / 'chunk-resend'
HandleVoiceChunk(p, packet, from) ==
    LET old == receivedChunksRef[p][packet.noteId]
        created == IF ~old.present
                   THEN [NoTransfer EXCEPT !.present = TRUE,
                                           !.chunks = NullArray(packet.total)]
                   ELSE old
        transferData == [created EXCEPT
                            !.chunks = StoreChunk(@, packet.index, packet.chunk)]
        rcv == [receivedChunksRef[p] EXCEPT ![packet.noteId] = transferData]
    IN  /\ IF transferData.hasEnd /\ ~IncludesNull(transferData.chunks)
           THEN CompleteTransfer(p, packet.noteId, rcv, from)
           ELSE /\ receivedChunksRef' = [receivedChunksRef EXCEPT ![p] = rcv]
                /\ UNCHANGED <<timers, nextTimer, voiceNotes, depsChanged, sentLog>>
        /\ UNCHANGED <<room, renderedNotes, sentChunksCacheRef, failedNotice, noteBytes,
                       resend>>

\* handleDataReceived, case 'voice-end'
HandleVoiceEnd(p, packet, from) ==
    LET noteId == packet.noteId
        totalChunks == packet.total
        old == receivedChunksRef[p][noteId]
        transferData == IF ~old.present
                        THEN [NoTransfer EXCEPT !.present = TRUE,
                                                !.chunks = NullArray(totalChunks),
                                                !.hasEnd = TRUE,
                                                !.totalChunks = totalChunks]
                        ELSE [old EXCEPT !.hasEnd = TRUE, !.totalChunks = totalChunks]
        rcv == [receivedChunksRef[p] EXCEPT ![noteId] = transferData]
        receivedCount == ReceivedCount(transferData.chunks)
        missingIndexes == MissingIndexes(transferData.chunks)
    IN  /\ IF receivedCount = totalChunks
           THEN CompleteTransfer(p, noteId, rcv, from)
           ELSE /\ sentLog' = [sentLog EXCEPT ![p] =
                        BroadcastPacket(p, @, RequestChunks(noteId, missingIndexes))]
                /\ timers' = [timers EXCEPT ![p] =
                        @ \cup {[id |-> nextTimer[p], noteId |-> noteId]}]
                /\ nextTimer' = [nextTimer EXCEPT ![p] = @ + 1]
                /\ receivedChunksRef' = [receivedChunksRef EXCEPT ![p] =
                        [rcv EXCEPT ![noteId].timeoutId = nextTimer[p]]]
                /\ UNCHANGED <<voiceNotes, depsChanged>>
        /\ UNCHANGED <<room, renderedNotes, sentChunksCacheRef, failedNotice, noteBytes,
                       resend>>

\* handleDataReceived, case 'status-update'
HandleStatusUpdate(p, packet) ==
    /\ voiceNotes' = [voiceNotes EXCEPT ![p] = SetStatus(@, packet.noteId, packet.status)]
    /\ depsChanged' = [depsChanged EXCEPT ![p] = TRUE]
    /\ UNCHANGED <<room, renderedNotes, receivedChunksRef, sentChunksCacheRef, timers,
                   nextTimer, sentLog, failedNotice, noteBytes, resend>>

\* handleDataReceived, case 'delete-note'
HandleDeleteNote(p, packet) ==
    /\ voiceNotes' = [voiceNotes EXCEPT ![p] = RemoveNote(@, packet.noteId)]
    /\ depsChanged' = [depsChanged EXCEPT ![p] = TRUE]
    /\ UNCHANGED <<room, renderedNotes, receivedChunksRef, sentChunksCacheRef, timers,
                   nextTimer, sentLog, failedNotice, noteBytes, resend>>

\* variant: the abandoned transfer is kept
HandleIncompleteTransferKeeps(p, noteId, pending) ==
    /\ failedNotice' = [failedNotice EXCEPT ![p][noteId] = @ + 1]
    /\ timers' = [timers EXCEPT ![p] =
            ClearTimeout(pending, receivedChunksRef[p][noteId].timeoutId)]
    /\ UNCHANGED receivedChunksRef

\* handleIncompleteTransfer(noteId), the callback of the recovery deadline;
\* pending are the handles still live when the callback runs.
HandleIncompleteTransfer(p, noteId, pending) ==
    LET transferData == receivedChunksRef[p][noteId]
    IN  /\ failedNotice' = [failedNotice EXCEPT ![p][noteId] = @ + 1]
        /\ timers' = [timers EXCEPT ![p] = ClearTimeout(pending, transferData.timeoutId)]
        /\ receivedChunksRef' = [receivedChunksRef EXCEPT ![p][noteId] = NoTransfer]

\* The cleanup of the effect with dependencies [room, voiceNotes,
\* lastRecording.url]: React runs it whenever one of them changed.
Cleanup(p) ==
    /\ room' = [room EXCEPT ![p] = IF @ = "Connected" THEN "Disconnecting" ELSE @]
    /\ timers' = [timers EXCEPT ![p] =
            {t \in @ : \A n \in NoteIds : receivedChunksRef[p][n].timeoutId # t.id}]
    /\ cacheTimers' = [cacheTimers EXCEPT ![p] =
            {t \in @ : \A n \in NoteIds : sentChunksCacheRef[p][n].timeoutId # t.id}]
    /\ receivedChunksRef' = [receivedChunksRef EXCEPT ![p] = [n \in NoteIds |-> NoTransfer]]
    /\ sentChunksCacheRef' = [sentChunksCacheRef EXCEPT ![p] = [n \in NoteIds |-> NoCache]]

\* ----------------------------------------------------------------- actions
\* handleEnterRoom succeeds: setRoom(newRoom).  The effects re-run with the
\* new room; the cleanup of the previous render sees room undefined and
\* empty refs.
EnterRoom(p) ==
    /\ room[p] = "undefined"
    /\ room' = [room EXCEPT ![p] = "Connected"]
    /\ UNCHANGED <<voiceNotes, renderedNotes, depsChanged, receivedChunksRef,
                   sentChunksCacheRef, timers, nextTimer, sentLog, failedNotice,
                   noteBytes, inFlight, lastPacket, nRecv>>
    /\ UNCHANGED sendVars

\* The disconnect started by the cleanup completes: room.state becomes
\* Disconnected.
DisconnectCompletes(p) ==
    /\ room[p] = "Disconnecting"
    /\ room' = [room EXCEPT ![p] = "Disconnected"]
    /\ UNCHANGED <<voiceNotes, renderedNotes, depsChanged, receivedChunksRef,
                   sentChunksCacheRef, timers, nextTimer, sentLog, failedNotice,
                   noteBytes, inFlight, lastPacket, nRecv>>
    /\ UNCHANGED sendVars

\* RoomEvent.DataReceived reaches the handler while the room is connected.
Receives(p, packet) ==
    /\ RoomConnected(p)
    /\ nRecv[p] < MaxRecv
    /\ nRecv' = [nRecv EXCEPT ![p] = @ + 1]
    /\ lastPacket' = [lastPacket EXCEPT ![p] = packet]
    /\ UNCHANGED <<lastRecording, renderedRecording, send, pubLog, player, clock,
                   recorder>>

RecvVoiceChunk(p) ==
    \E n \in NoteIds : \E packet \in ChunkPackets(n) :
        Receives(p, packet) /\ HandleVoiceChunk(p, packet, Remote)
        /\ UNCHANGED <<inFlight, cacheTimers, relayed>>

RecvChunkResend(p) ==
    \E n \in NoteIds : \E packet \in ResendPackets(n) :
        Receives(p, packet) /\ HandleVoiceChunk(p, packet, Remote)
        /\ UNCHANGED <<inFlight, cacheTimers, relayed>>

RecvVoiceEnd(p) ==
    \E n \in NoteIds :
        Receives(p, EndPacket(n)) /\ HandleVoiceEnd(p, EndPacket(n), Remote)
        /\ UNCHANGED <<inFlight, cacheTimers, relayed>>

RecvStatusUpdate(p) ==
    \E n \in NoteIds, st \in AckStatus :
        Receives(p, StatusUpdate(n, st)) /\ HandleStatusUpdate(p, StatusUpdate(n, st))
        /\ UNCHANGED <<inFlight, cacheTimers, relayed>>

RecvDeleteNote(p) ==
    \E n \in NoteIds :
        Receives(p, DeleteNote(n)) /\ HandleDeleteNote(p, DeleteNote(n))
        /\ UNCHANGED <<inFlight, cacheTimers, relayed>>

\* ------------------------------------------------------------ sending side
\* const maxAttempts = 3 of broadcastPacket
maxAttempts == 3

\* noteId = `vn-${Date.now()}-${identity}`: the id of the k-th note a client sends
SendOrder == <<"n1", "n2">>

\* the packet the send loop is at: voice-chunk `index`, or voice-end once the
\* loop over the chunks is through
SendPacket(sd) ==
    IF sd.index < Len(sd.chunks)
    THEN VoiceChunk(sd.noteId, sd.index, sd.chunks[sd.index + 1], Len(sd.chunks))
    ELSE VoiceEnd(sd.noteId, Len(sd.chunks))

\* one publishData call of the send loop
PubEntry(packet, outcome) ==
    [type |-> packet.type, noteId |-> packet.noteId, index |-> packet.index,
     outcome |-> outcome, delay |-> 0]

\* variant: the waits the comment at line 845 announces (100 ms, 200 ms)
BackoffFromHundred(attempts) == 2 ^ (attempts - 1) * 100

\* const delay = Math.pow(2, attempts) * 100, after attempts++
Backoff(attempts) == 2 ^ attempts * 100

\* the publishData call of the next turn of the while loop, made after the
\* wait that follows the attempts-th rejection
RetryEntry(packet, attempts) ==
    [PubEntry(packet, "pending") EXCEPT !.delay = Backoff(attempts)]

\* the call in progress gets its outcome
MarkLast(log, outcome) == [log EXCEPT ![Len(log)].outcome = outcome]

\* prev.map(n => n.sender.name === 'You' && n.status === 'sent' ? {...n, status: 'failed'} : n)
FailOwnSent(notes) ==
    MapSeq(notes, LAMBDA n : IF n.sender = "You" /\ n.status = "sent"
                             THEN [n EXCEPT !.status = "failed"] ELSE n)

\* everything but the recorder
appVars == <<room, voiceNotes, renderedNotes, depsChanged, receivedChunksRef,
             sentChunksCacheRef, timers, nextTimer, sentLog, failedNotice, noteBytes,
             inFlight, lastPacket, nRecv, lastRecording, renderedRecording, send, pubLog,
             cacheTimers, resend, player, relayed, clock>>

\* broadcastPacket({ type: 'status', status }): the recording indicator the
\* peers are told, handed over only by a connected room
Tell(p, rec, status) == IF RoomConnected(p) THEN [rec EXCEPT !.told = status] ELSE rec

\* stopRecording(): the interval is cleared; a recording MediaRecorder is
\* stopped and its stop event will resolve the promise (who = "awaited" when
\* the caller uses the blob, "dropped" when it does not); otherwise the
\* status is set to idle and the promise resolves to null at once.
StopRecorder(rec, who) ==
    IF rec.media = "recording"
    THEN [rec EXCEPT !.interval = FALSE, !.media = "inactive", !.onstop = who]
    ELSE [rec EXCEPT !.interval = FALSE, !.status = "idle"]

\* handleStartRecording with getUserMedia granted (after a pending stop event
\* of the previous MediaRecorder has been delivered): startRecording returns
\* true and the peers are told 'recording'.
StartRecording(p) ==
    /\ room[p] # "undefined"
    /\ recorder[p].status = "idle"
    /\ recorder[p].onstop = "none"
    /\ clock[p] < Len(SendOrder)
    /\ recorder' = [recorder EXCEPT ![p] =
            Tell(p, [@ EXCEPT !.status = "recording", !.media = "recording",
                              !.interval = TRUE], "recording")]
    /\ UNCHANGED appVars

\* handleStartRecording with getUserMedia refused: setRecordingStatus('idle'),
\* startRecording returns false and the notification is shown.
StartRecordingFails(p) ==
    /\ room[p] # "undefined"
    /\ recorder[p].status = "idle"
    /\ recorder[p].onstop = "none"
    /\ recorder' = [recorder EXCEPT ![p].status = "idle", ![p].denied = TRUE]
    /\ UNCHANGED appVars

\* handleStopRecording up to its await: the stop button is pressed.  When
\* stopRecording resolves to null at once, nothing is stored and the peers
\* are told 'idle'.
HandleStopRecording(p) ==
    /\ recorder[p].status = "recording"
    /\ recorder' = [recorder EXCEPT ![p] =
            IF @.media = "recording" THEN StopRecorder(@, "awaited")
            ELSE Tell(p, StopRecorder(@, "awaited"), "idle")]
    /\ UNCHANGED appVars

\* the interval callback at elapsed >= MAX_RECORDING_TIME / 1000: it calls
\* stopRecording() and does not use the promise.
RecordingCeiling(p) ==
    /\ recorder[p].interval
    /\ recorder' = [recorder EXCEPT ![p] = StopRecorder(@, "dropped")]
    /\ UNCHANGED appVars

\* The stop event of the MediaRecorder: onstop sets the status to reviewing
\* and resolves the promise with the blob; a handleStopRecording awaiting it
\* goes on: setLastRecording({ blob, url }) and the peers are told 'idle'.
StopRecording(p) ==
    /\ recorder[p].onstop # "none"
    /\ LET awaited == recorder[p].onstop = "awaited"
           rec == [recorder[p] EXCEPT !.status = "reviewing", !.onstop = "none"]
       IN  /\ recorder' = [recorder EXCEPT ![p] = IF awaited THEN Tell(p, rec, "idle") ELSE rec]
           /\ lastRecording' = [lastRecording EXCEPT ![p] = @ \/ awaited]
           /\ depsChanged' = [depsChanged EXCEPT ![p] = @ \/ awaited]
    /\ UNCHANGED <<room, voiceNotes, renderedNotes, receivedChunksRef, sentChunksCacheRef,
                   timers, nextTimer, sentLog, failedNotice, noteBytes, inFlight,
                   lastPacket, nRecv, renderedRecording, send, pubLog, cacheTimers,
                   resend, player, relayed, clock>>

\* handleDiscardNote: setLastRecording({ blob: null, url: null }),
\* resetRecording() and the peers are told 'idle'.
DiscardNote(p) ==
    /\ recorder[p].status = "reviewing"
    /\ lastRecording' = [lastRecording EXCEPT ![p] = FALSE]
    /\ depsChanged' = [depsChanged EXCEPT ![p] = @ \/ lastRecording[p]]
    /\ recorder' = [recorder EXCEPT ![p] =
            Tell(p, [@ EXCEPT !.status = "idle", !.interval = FALSE,
                              !.media = IF @ = "recording" THEN "inactive" ELSE @],
                 "idle")]
    /\ UNCHANGED <<room, voiceNotes, renderedNotes, receivedChunksRef, sentChunksCacheRef,
                   timers, nextTimer, sentLog, failedNotice, noteBytes, inFlight,
                   lastPacket, nRecv, renderedRecording, send, pubLog, cacheTimers,
                   resend, player, relayed, clock>>

\* handleSendNote up to its first await: past the guard on lastRecording.blob
\* and room, setRecordingStatus('processing') and applyVoiceEffect is started.
ProcessNote(p) ==
    /\ recorder[p].status = "reviewing"
    /\ renderedRecording[p] /\ lastRecording[p]
    /\ room[p] # "undefined"
    /\ send[p].pc = "idle"
    /\ clock[p] < Len(SendOrder)
    /\ recorder' = [recorder EXCEPT ![p].status = "processing"]
    /\ send' = [send EXCEPT ![p] = [NoSend EXCEPT !.pc = "processing"]]
    /\ UNCHANGED <<room, voiceNotes, renderedNotes, depsChanged, receivedChunksRef,
                   sentChunksCacheRef, timers, nextTimer, sentLog, failedNotice, noteBytes,
                   inFlight, lastPacket, nRecv, lastRecording, renderedRecording, pubLog,
                   cacheTimers, resend, player, relayed, clock>>

\* AudioProcessor.applyVoiceEffect: the rendered clip, or the clip it was
\* given when it is empty or decoding or rendering throws
applyVoiceEffect(clip, throws) == IF throws \/ clip = <<>> THEN "original" ELSE "rendered"

\* variant: a clip that could not be processed is not sent
SendNoteAborts(p) ==
    \E throws \in BOOLEAN :
    /\ send[p].pc = "processing"
    /\ LET noteId == SendOrder[clock[p] + 1]
           blob == applyVoiceEffect(noteBytes[noteId], throws)
           chunks == ChunksOf(arrayBufferToBase64(noteBytes[noteId]))
       IN  IF blob = "original"
           THEN /\ send' = [send EXCEPT ![p] = NoSend]
                /\ recorder' = [recorder EXCEPT ![p].status = "idle"]
                /\ UNCHANGED <<sentChunksCacheRef, cacheTimers, nextTimer, clock>>
           ELSE /\ sentChunksCacheRef' = [sentChunksCacheRef EXCEPT ![p][noteId] =
                        [present |-> TRUE, chunks |-> chunks, timeoutId |-> nextTimer[p]]]
                /\ cacheTimers' = [cacheTimers EXCEPT ![p] =
                        @ \cup {[id |-> nextTimer[p], noteId |-> noteId]}]
                /\ send' = [send EXCEPT ![p] =
                        [pc |-> "call", noteId |-> noteId, index |-> 0, attempts |-> 0,
                         chunks |-> chunks, blob |-> blob]]
                /\ recorder' = [recorder EXCEPT ![p].status = "sending"]
                /\ nextTimer' = [nextTimer EXCEPT ![p] = @ + 1]
                /\ clock' = [clock EXCEPT ![p] = @ + 1]
    /\ UNCHANGED <<room, voiceNotes, renderedNotes, depsChanged, receivedChunksRef,
                   timers, sentLog, failedNotice, noteBytes, inFlight, lastPacket, nRecv,
                   lastRecording, renderedRecording, pubLog, resend, player, relayed>>

\* handleSendNote from the result of applyVoiceEffect up to its send loop:
\* setRecordingStatus('sending'), the buffer noteBytes[noteId] of the blob is
\* encoded and cut into chunks, the cache entry and its retention timer are
\* created.
SendNote(p) ==
    \E throws \in BOOLEAN :
    /\ send[p].pc = "processing"
    /\ LET noteId == SendOrder[clock[p] + 1]
           blob == applyVoiceEffect(noteBytes[noteId], throws)
           chunks == ChunksOf(arrayBufferToBase64(noteBytes[noteId]))
       IN  /\ sentChunksCacheRef' = [sentChunksCacheRef EXCEPT ![p][noteId] =
                   [present |-> TRUE, chunks |-> chunks, timeoutId |-> nextTimer[p]]]
           /\ cacheTimers' = [cacheTimers EXCEPT ![p] =
                   @ \cup {[id |-> nextTimer[p], noteId |-> noteId]}]
           /\ send' = [send EXCEPT ![p] =
                   [pc |-> "call", noteId |-> noteId, index |-> 0, attempts |-> 0,
                    chunks |-> chunks, blob |-> blob]]
    /\ recorder' = [recorder EXCEPT ![p].status = "sending"]
    /\ nextTimer' = [nextTimer EXCEPT ![p] = @ + 1]
    /\ clock' = [clock EXCEPT ![p] = @ + 1]
    /\ UNCHANGED <<room, voiceNotes, renderedNotes, depsChanged, receivedChunksRef,
                   timers, sentLog, failedNotice, noteBytes, inFlight, lastPacket, nRecv,
                   lastRecording, renderedRecording, pubLog, resend, player, relayed>>

\* Date.now() is the wall clock of p's machine, not a monotonic one: the
\* system time is set back (by hand or by a time synchronisation step), so
\* that the next send reads what the previous send read.  SetBacks counts
\* these steps in a session without inbound transfers, where every timer
\* handle drawn is the cache timer of one send.
SetBacks(p) == (nextTimer[p] - 1) - clock[p]

ClockSetBack(p) ==
    /\ clock[p] > 0
    /\ SetBacks(p) < MaxSetBack
    /\ clock' = [clock EXCEPT ![p] = @ - 1]
    /\ UNCHANGED <<room, voiceNotes, renderedNotes, depsChanged, receivedChunksRef,
                   sentChunksCacheRef, timers, nextTimer, sentLog, failedNotice, noteBytes,
                   inFlight, lastPacket, nRecv, lastRecording, renderedRecording, send,
                   pubLog, cacheTimers, resend, player, relayed, recorder>>

\* variant: the failed send leaves its note in the store as sent
SendFailsAddsNote(p) ==
    /\ voiceNotes' = [voiceNotes EXCEPT ![p] =
            <<Note(send[p].noteId, "You", noteBytes[send[p].noteId], "sent")>> \o @]
    /\ lastRecording' = [lastRecording EXCEPT ![p] = FALSE]
    /\ depsChanged' = [depsChanged EXCEPT ![p] = TRUE]
    /\ send' = [send EXCEPT ![p] = NoSend]
    /\ recorder' = [recorder EXCEPT ![p].status = "idle"]

\* catch and finally of handleSendNote after a broadcastPacket returned false
SendFails(p) ==
    /\ voiceNotes' = [voiceNotes EXCEPT ![p] = FailOwnSent(@)]
    /\ lastRecording' = [lastRecording EXCEPT ![p] = FALSE]
    /\ depsChanged' = [depsChanged EXCEPT ![p] = TRUE]
    /\ send' = [send EXCEPT ![p] = NoSend]
    /\ recorder' = [recorder EXCEPT ![p].status = "idle"]

\* the voice-end went out: the note enters the sender's store as sent; finally
SendSucceeds(p) ==
    /\ voiceNotes' = [voiceNotes EXCEPT ![p] =
            <<Note(send[p].noteId, "You", noteBytes[send[p].noteId], "sent")>> \o @]
    /\ lastRecording' = [lastRecording EXCEPT ![p] = FALSE]
    /\ depsChanged' = [depsChanged EXCEPT ![p] = TRUE]
    /\ send' = [send EXCEPT ![p] = NoSend]
    /\ recorder' = [recorder EXCEPT ![p].status = "idle"]

\* await broadcastPacket(...) of the send loop is entered: a room that is not
\* connected makes it return false, else the packet goes to publishData.
BroadcastCall(p) ==
    /\ send[p].pc = "call"
    /\ IF RoomConnected(p)
       THEN /\ send' = [send EXCEPT ![p].pc = "publish", ![p].attempts = 0]
            /\ pubLog' = [pubLog EXCEPT ![p] = Append(@, PubEntry(SendPacket(send[p]), "pending"))]
            /\ sentLog' = [sentLog EXCEPT ![p] = Append(@, SendPacket(send[p]))]
            /\ UNCHANGED <<voiceNotes, lastRecording, depsChanged, recorder>>
       ELSE /\ SendFails(p)
            /\ UNCHANGED <<pubLog, sentLog>>
    /\ UNCHANGED <<room, renderedNotes, receivedChunksRef, sentChunksCacheRef, timers,
                   nextTimer, failedNotice, noteBytes, inFlight, lastPacket, nRecv,
                   renderedRecording, cacheTimers, resend, player, relayed, clock>>

\* variant: after the first chunk the loop is left for voice-end
PublishOkSkipsRest(p) ==
    /\ send[p].pc = "publish"
    /\ RoomConnected(p)
    /\ pubLog' = [pubLog EXCEPT ![p] = MarkLast(@, "ok")]
    /\ IF send[p].index < Len(send[p].chunks)
       THEN /\ send' = [send EXCEPT ![p].pc = "call", ![p].index = Len(send[p].chunks)]
            /\ UNCHANGED <<voiceNotes, lastRecording, depsChanged, recorder>>
       ELSE SendSucceeds(p)
    /\ UNCHANGED <<room, renderedNotes, receivedChunksRef, sentChunksCacheRef, timers,
                   nextTimer, sentLog, failedNotice, noteBytes, inFlight, lastPacket, nRecv,
                   renderedRecording, cacheTimers, resend, player, relayed, clock>>

\* publishData resolves: the loop goes on to the next chunk (after its 50 ms
\* pause) or to voice-end, and after voice-end the send has succeeded.
PublishOk(p) ==
    /\ send[p].pc = "publish"
    /\ RoomConnected(p)
    /\ pubLog' = [pubLog EXCEPT ![p] = MarkLast(@, "ok")]
    /\ IF send[p].index < Len(send[p].chunks)
       THEN /\ send' = [send EXCEPT ![p].pc = "call", ![p].index = @ + 1]
            /\ UNCHANGED <<voiceNotes, lastRecording, depsChanged, recorder>>
       ELSE SendSucceeds(p)
    /\ UNCHANGED <<room, renderedNotes, receivedChunksRef, sentChunksCacheRef, timers,
                   nextTimer, sentLog, failedNotice, noteBytes, inFlight, lastPacket, nRecv,
                   renderedRecording, cacheTimers, resend, player, relayed, clock>>

\* variant: an exhausted chunk is given up and the loop goes on
PublishRejectsContinues(p) ==
    /\ send[p].pc = "publish"
    /\ IF send[p].attempts + 1 >= maxAttempts
       THEN /\ pubLog' = [pubLog EXCEPT ![p] = MarkLast(@, "rejected")]
            /\ IF send[p].index < Len(send[p].chunks)
               THEN /\ send' = [send EXCEPT ![p].pc = "call", ![p].index = @ + 1]
                    /\ UNCHANGED <<voiceNotes, lastRecording, depsChanged, recorder>>
               ELSE SendFails(p)
       ELSE /\ pubLog' = [pubLog EXCEPT ![p] =
                    Append(MarkLast(@, "rejected"),
                           RetryEntry(SendPacket(send[p]), send[p].attempts + 1))]
            /\ send' = [send EXCEPT ![p].attempts = @ + 1]
            /\ UNCHANGED <<voiceNotes, lastRecording, depsChanged, recorder>>
    /\ UNCHANGED <<room, renderedNotes, receivedChunksRef, sentChunksCacheRef, timers,
                   nextTimer, sentLog, failedNotice, noteBytes, inFlight, lastPacket, nRecv,
                   renderedRecording, cacheTimers, resend, player, relayed, clock>>

\* publishData rejects: after the back-off it is called again, and the
\* maxAttempts-th rejection makes broadcastPacket return false.
PublishRejects(p) ==
    /\ send[p].pc = "publish"
    /\ IF send[p].attempts + 1 >= maxAttempts
       THEN /\ pubLog' = [pubLog EXCEPT ![p] = MarkLast(@, "rejected")]
            /\ SendFails(p)
       ELSE /\ pubLog' = [pubLog EXCEPT ![p] =
                    Append(MarkLast(@, "rejected"),
                           RetryEntry(SendPacket(send[p]), send[p].attempts + 1))]
            /\ send' = [send EXCEPT ![p].attempts = @ + 1]
            /\ UNCHANGED <<voiceNotes, lastRecording, depsChanged, recorder>>
    /\ UNCHANGED <<room, renderedNotes, receivedChunksRef, sentChunksCacheRef, timers,
                   nextTimer, sentLog, failedNotice, noteBytes, inFlight, lastPacket, nRecv,
                   renderedRecording, cacheTimers, resend, player, relayed, clock>>

\* The retention timer of a cache entry fires (all are armed for the same
\* SENT_CHUNK_CACHE_DURATION): delete sentChunksCacheRef.current[noteId].
CacheTimerFires(p) ==
    \E t \in cacheTimers[p] :
        /\ \A u \in cacheTimers[p] : t.id <= u.id
        /\ cacheTimers' = [cacheTimers EXCEPT ![p] = @ \ {t}]
        /\ sentChunksCacheRef' = [sentChunksCacheRef EXCEPT ![p][t.noteId] = NoCache]
        /\ UNCHANGED <<room, voiceNotes, renderedNotes, depsChanged, receivedChunksRef,
                       timers, nextTimer, sentLog, failedNotice, noteBytes, inFlight,
                       lastPacket, nRecv, lastRecording, renderedRecording, send, pubLog,
                       resend, player, relayed, clock, recorder>>

\* one turn of the loop of the request-chunks handler over `cached`
ResendOne(p, rs) ==
    /\ sentLog' = [sentLog EXCEPT ![p] =
            BroadcastPacket(p, @, ChunkResend(rs.noteId, Head(rs.todo),
                                              rs.chunks[Head(rs.todo) + 1], Len(rs.chunks)))]
    /\ resend' = [resend EXCEPT ![p] =
            IF Tail(rs.todo) = <<>> THEN NoResend ELSE [rs EXCEPT !.todo = Tail(@)]]

\* handleDataReceived, case 'request-chunks': without a cache entry nothing
\* happens; with one, the first chunk-resend is broadcast at once and the
\* others follow, each after the await of the one before and 20 ms.
HandleRequestChunks(p, packet) ==
    LET cached == sentChunksCacheRef[p][packet.noteId]
    IN  /\ ~resend[p].active
        /\ IF cached.present /\ packet.missingIndexes # <<>>
           THEN ResendOne(p, [active |-> TRUE, noteId |-> packet.noteId,
                              todo |-> packet.missingIndexes, chunks |-> cached.chunks])
           ELSE UNCHANGED <<sentLog, resend>>
        /\ UNCHANGED <<room, voiceNotes, renderedNotes, depsChanged, receivedChunksRef,
                       sentChunksCacheRef, timers, nextTimer, failedNotice, noteBytes>>

\* the requests a receiver can make for note n: ascending index lists
Requests(n) ==
    {RequestChunks(n, Ascending(S)) : S \in SUBSET (0..WireTotal(n) - 1) \ {{}}}

RecvRequestChunks(p) ==
    \E n \in NoteIds : \E packet \in Requests(n) :
        Receives(p, packet) /\ HandleRequestChunks(p, packet)
        /\ UNCHANGED <<inFlight, cacheTimers, relayed>>

\* the loop of the request-chunks handler goes on with the next index
ResendStep(p) ==
    /\ resend[p].active
    /\ ResendOne(p, resend[p])
    /\ UNCHANGED <<room, voiceNotes, renderedNotes, depsChanged, receivedChunksRef,
                   sentChunksCacheRef, timers, nextTimer, failedNotice, noteBytes,
                   inFlight, lastPacket, nRecv, lastRecording, renderedRecording, send,
                   pubLog, cacheTimers, player, relayed, clock, recorder>>

\* variant: a datagram that cannot be handled abandons the open transfers
DropDatagramResets(p) ==
    /\ receivedChunksRef' = [receivedChunksRef EXCEPT ![p] = [n \in NoteIds |-> NoTransfer]]
    /\ UNCHANGED <<room, voiceNotes, renderedNotes, depsChanged, sentChunksCacheRef,
                   timers, nextTimer, sentLog, failedNotice, noteBytes, resend>>

\* handleDataReceived when JSON.parse throws (the catch only logs) or when no
\* case of the switch matches packet.type: nothing is done.
DropDatagram(p) ==
    UNCHANGED <<room, voiceNotes, renderedNotes, depsChanged, receivedChunksRef,
                sentChunksCacheRef, timers, nextTimer, sentLog, failedNotice,
                noteBytes, resend>>

\* handleDataReceived: the switch on packet.type
HandlePacket(p, packet, from) ==
    CASE packet.type \in {"voice-chunk", "chunk-resend"} -> HandleVoiceChunk(p, packet, from)
      [] packet.type = "voice-end" -> HandleVoiceEnd(p, packet, from)
      [] packet.type = "status-update" -> HandleStatusUpdate(p, packet)
      [] packet.type = "delete-note" -> HandleDeleteNote(p, packet)
      [] packet.type = "request-chunks" -> HandleRequestChunks(p, packet)
      [] OTHER -> DropDatagram(p)

\* A payload that is not JSON (here: a voice-chunk cut off in transit), and a
\* well-formed packet of a type of the Packet union that the switch has no
\* case for.
Malformed == Packet("{type:voice-ch", "", 0, NoText, 0, "", <<>>)
TypingIndicator == Packet("typing-indicator", "", 0, NoText, 0, "", <<>>)
Unhandled == {Malformed, TypingIndicator}

\* JSON.parse(new TextDecoder().decode(payload)): the packet, or no packet
\* when it throws
JSONParse(payload) == IF payload = Malformed THEN NoPacket ELSE payload

\* handleDataReceived: try { parse; switch } catch { log }
handleDataReceived(p, payload) ==
    IF JSONParse(payload) = NoPacket THEN DropDatagram(p)
    ELSE HandlePacket(p, JSONParse(payload), Remote)

\* A datagram that cannot be handled reaches the client.
RecvUnhandled(p) ==
    \E payload \in Unhandled :
        Receives(p, payload) /\ handleDataReceived(p, payload)
        /\ UNCHANGED <<inFlight, cacheTimers, relayed>>

\* The transport hands over one of the datagrams in flight, in any order,
\* each once.
Deliver(p) ==
    \E packet \in inFlight[p] :
        /\ Receives(p, packet)
        /\ inFlight' = [inFlight EXCEPT ![p] = @ \ {packet}]
        /\ HandlePacket(p, packet, Remote)
        /\ UNCHANGED <<cacheTimers, relayed>>

\* The oldest live recovery deadline fires (all are armed for the same
\* CHUNK_RESEND_TIMEOUT, so they fire in the order they were armed).
TimerFires(p) ==
    \E t \in timers[p] :
        /\ \A u \in timers[p] : t.id <= u.id
        /\ HandleIncompleteTransfer(p, t.noteId, timers[p] \ {t})
        /\ UNCHANGED <<room, voiceNotes, renderedNotes, depsChanged, sentChunksCacheRef,
                       nextTimer, sentLog, noteBytes, inFlight, lastPacket, nRecv>>
        /\ UNCHANGED sendVars

\* The transport hands p the next packet that q broadcast (the reliable
\* channel keeps their order).
Relay(q, p) ==
    /\ relayed[q] < Len(sentLog[q])
    /\ LET packet == sentLog[q][relayed[q] + 1]
       IN  Receives(p, packet) /\ HandlePacket(p, packet, q)
    /\ relayed' = [relayed EXCEPT ![q] = @ + 1]
    /\ UNCHANGED <<inFlight, cacheTimers>>

\* ---------------------------------------------------------------- playback
\* prev.map(n => n.id === noteId ? { ...n, isPlaying: true } : { ...n, isPlaying: false })
SetPlaying(notes, noteId) ==
    MapSeq(notes, LAMBDA n : [n EXCEPT !.isPlaying = (n.id = noteId)])

\* prev.map(n => n.id === noteId ? { ...n, isPlaying: false } : n)
SetPaused(notes, noteId) ==
    MapSeq(notes, LAMBDA n : IF n.id = noteId THEN [n EXCEPT !.isPlaying = FALSE] ELSE n)

\* voiceNotes.find(n => n.id === noteId) in the voiceNotes of the closure
Find(notes, noteId) ==
    notes[CHOOSE i \in NotesAt(notes, noteId) : \A j \in NotesAt(notes, noteId) : i <= j]

\* handlePlayPause(noteId): a playing audio is paused (its onpause handler
\* runs) and, unless it was this note, a new Audio is created and play()
\* called.
PlayPause(p, noteId) ==
    /\ room[p] # "undefined"
    /\ NotesAt(renderedNotes[p], noteId) # {}
    /\ player[p].state # "starting"
    /\ player[p].plays < MaxPlays
    /\ LET noteToPlay == Find(renderedNotes[p], noteId)
           playing == player[p].state = "playing"
       IN  /\ IF playing
              THEN /\ voiceNotes' = [voiceNotes EXCEPT ![p] = SetPaused(@, player[p].noteId)]
                   /\ depsChanged' = [depsChanged EXCEPT ![p] = TRUE]
              ELSE UNCHANGED <<voiceNotes, depsChanged>>
           /\ player' = [player EXCEPT ![p] =
                  IF playing /\ player[p].noteId = noteId
                  THEN [NoPlayer EXCEPT !.plays = player[p].plays]
                  ELSE [state |-> "starting", noteId |-> noteId,
                        status |-> noteToPlay.status, sender |-> noteToPlay.sender,
                        plays |-> player[p].plays + 1]]
    /\ UNCHANGED <<room, renderedNotes, receivedChunksRef, sentChunksCacheRef, timers,
                   nextTimer, sentLog, failedNotice, noteBytes, inFlight, lastPacket, nRecv,
                   lastRecording, renderedRecording, send, pubLog, cacheTimers, resend,
                   relayed, clock, recorder>>

\* newAudio.onplay
OnPlay(p) ==
    /\ player[p].state = "starting"
    /\ player' = [player EXCEPT ![p].state = "playing"]
    /\ voiceNotes' = [voiceNotes EXCEPT ![p] = SetPlaying(@, player[p].noteId)]
    /\ depsChanged' = [depsChanged EXCEPT ![p] = TRUE]
    /\ sentLog' = [sentLog EXCEPT ![p] =
            IF player[p].sender # "You" /\ player[p].status # "played"
            THEN BroadcastPacket(p, @, StatusUpdate(player[p].noteId, "played"))
            ELSE @]
    /\ UNCHANGED <<room, renderedNotes, receivedChunksRef, sentChunksCacheRef, timers,
                   nextTimer, failedNotice, noteBytes, inFlight, lastPacket, nRecv,
                   lastRecording, renderedRecording, send, pubLog, cacheTimers, resend,
                   relayed, clock, recorder>>

\* newAudio.onended
OnEnded(p) ==
    /\ player[p].state = "playing"
    /\ player' = [player EXCEPT ![p] = [NoPlayer EXCEPT !.plays = player[p].plays]]
    /\ voiceNotes' = [voiceNotes EXCEPT ![p] = SetPaused(@, player[p].noteId)]
    /\ depsChanged' = [depsChanged EXCEPT ![p] = TRUE]
    /\ UNCHANGED <<room, renderedNotes, receivedChunksRef, sentChunksCacheRef, timers,
                   nextTimer, sentLog, failedNotice, noteBytes, inFlight, lastPacket, nRecv,
                   lastRecording, renderedRecording, send, pubLog, cacheTimers, resend,
                   relayed, clock, recorder>>

\* React commits the pending state: the callbacks are re-created over the
\* new voiceNotes and, voiceNotes being a dependency of the cleanup effect,
\* its cleanup runs.
Commit(p) ==
    /\ depsChanged[p]
    /\ depsChanged' = [depsChanged EXCEPT ![p] = FALSE]
    /\ renderedNotes' = [renderedNotes EXCEPT ![p] = voiceNotes[p]]
    /\ renderedRecording' = [renderedRecording EXCEPT ![p] = lastRecording[p]]
    /\ Cleanup(p)
    /\ UNCHANGED <<voiceNotes, nextTimer, sentLog, failedNotice, noteBytes, inFlight,
                   lastPacket, nRecv, lastRecording, send, pubLog, resend, player, relayed,
                   clock, recorder>>

\* ----------------------------------------------------------- specification
Receiver == "p1"

\* The buffers the remote sender encoded for the two notes.
DefaultBytes == [n \in NoteIds |-> IF n = "n1" THEN <<77, 0, 255, 77, 0, 0, 255>> ELSE <<255>>]

InitClient ==
    /\ room = [p \in Peers |-> "undefined"]
    /\ voiceNotes = [p \in Peers |-> <<>>]
    /\ renderedNotes = [p \in Peers |-> <<>>]
    /\ depsChanged = [p \in Peers |-> FALSE]
    /\ receivedChunksRef = [p \in Peers |-> [n \in NoteIds |-> NoTransfer]]
    /\ sentChunksCacheRef = [p \in Peers |-> [n \in NoteIds |-> NoCache]]
    /\ timers = [p \in Peers |-> {}]
    /\ nextTimer = [p \in Peers |-> 1]
    /\ sentLog = [p \in Peers |-> <<>>]
    /\ failedNotice = [p \in Peers |-> [n \in NoteIds |-> 0]]
    /\ inFlight = [p \in Peers |-> {}]
    /\ lastPacket = [p \in Peers |-> NoPacket]
    /\ nRecv = [p \in Peers |-> 0]
    /\ lastRecording = [p \in Peers |-> FALSE]
    /\ renderedRecording = [p \in Peers |-> FALSE]
    /\ send = [p \in Peers |-> NoSend]
    /\ pubLog = [p \in Peers |-> <<>>]
    /\ cacheTimers = [p \in Peers |-> {}]
    /\ resend = [p \in Peers |-> NoResend]
    /\ player = [p \in Peers |-> NoPlayer]
    /\ relayed = [p \in Peers |-> 0]
    /\ clock = [p \in Peers |-> 0]
    /\ recorder = [p \in Peers |-> NoRecorder]

Init == InitClient /\ noteBytes = DefaultBytes

Next ==
    \/ EnterRoom(Receiver)
    \/ RecvVoiceChunk(Receiver)
    \/ RecvChunkResend(Receiver)
    \/ RecvVoiceEnd(Receiver)
    \/ RecvStatusUpdate(Receiver)
    \/ RecvDeleteNote(Receiver)
    \/ TimerFires(Receiver)
    \/ Commit(Receiver)
    \/ DisconnectCompletes(Receiver)

Spec == Init /\ [][Next]_vars

\* A fresh receiver in the room and, in flight to it, the voice-chunks and
\* the voice-end of one note, whose buffer is any of the bounded buffers.
Payloads == SeqsUpTo(ByteVals, MaxBytes)

InitPerm ==
    /\ InitClient
    /\ \E b \in Payloads : noteBytes = [n \in NoteIds |-> b]

\* The remote sender's handleSendNote runs to its end with every publish
\* accepted: voice-chunk 0..total-1 and then voice-end are on their way to p.
RemoteSends(p, n) ==
    /\ RoomConnected(p)
    /\ inFlight[p] = {}
    /\ nRecv[p] = 0
    /\ inFlight' = [inFlight EXCEPT ![p] = ChunkPackets(n) \cup {EndPacket(n)}]
    /\ UNCHANGED <<room, voiceNotes, renderedNotes, depsChanged, receivedChunksRef,
                   sentChunksCacheRef, timers, nextTimer, sentLog, failedNotice,
                   noteBytes, lastPacket, nRecv>>
    /\ UNCHANGED sendVars

NextPerm ==
    \/ EnterRoom(Receiver)
    \/ RemoteSends(Receiver, "n1")
    \/ Deliver(Receiver)
    \/ Commit(Receiver)
    \/ DisconnectCompletes(Receiver)

SpecPerm == InitPerm /\ [][NextPerm]_vars

\* The sending side alone: for each payload, the remote sender encodes it,
\* cuts the text and puts the chunks on the wire.
NextChunking ==
    \/ EnterRoom(Receiver)
    \/ RemoteSends(Receiver, "n1")

ChunkingSpec == InitPerm /\ [][NextChunking]_vars


\* Fairness: a pending commit is performed and an armed deadline fires.
FairSpec ==
    Spec /\ WF_vars(Commit(Receiver)) /\ WF_vars(TimerFires(Receiver))
         /\ WF_vars(DisconnectCompletes(Receiver))

\* A receiver in the room and, in flight to it at the same time, the
\* datagrams of two notes of two chunks and of one chunk.
TwoNotes == [n \in NoteIds |-> IF n = "n1" THEN <<77, 0, 255, 77>> ELSE <<255>>]

InitTwo == InitClient /\ noteBytes = TwoNotes

RemoteSendsTwo(p) ==
    /\ RoomConnected(p)
    /\ inFlight[p] = {}
    /\ nRecv[p] = 0
    /\ inFlight' = [inFlight EXCEPT ![p] =
            UNION {ChunkPackets(n) \cup {EndPacket(n)} : n \in NoteIds}]
    /\ UNCHANGED <<room, voiceNotes, renderedNotes, depsChanged, receivedChunksRef,
                   sentChunksCacheRef, timers, nextTimer, sentLog, failedNotice,
                   noteBytes, lastPacket, nRecv>>
    /\ UNCHANGED sendVars

NextTwo ==
    \/ EnterRoom(Receiver)
    \/ RemoteSendsTwo(Receiver)
    \/ Deliver(Receiver)
    \/ TimerFires(Receiver)
    \/ Commit(Receiver)
    \/ DisconnectCompletes(Receiver)

SpecTwo == InitTwo /\ [][NextTwo]_vars

\* A receiver in the room and, in flight to it, the datagrams of one note
\* and the delete-note its owner broadcast for it.
RemoteSendsDeleted(p, n) ==
    /\ RoomConnected(p)
    /\ inFlight[p] = {}
    /\ nRecv[p] = 0
    /\ inFlight' = [inFlight EXCEPT ![p] =
            ChunkPackets(n) \cup {EndPacket(n), DeleteNote(n)}]
    /\ UNCHANGED <<room, voiceNotes, renderedNotes, depsChanged, receivedChunksRef,
                   sentChunksCacheRef, timers, nextTimer, sentLog, failedNotice,
                   noteBytes, lastPacket, nRecv>>
    /\ UNCHANGED sendVars

NextDeleted ==
    \/ EnterRoom(Receiver)
    \/ RemoteSendsDeleted(Receiver, "n1")
    \/ Deliver(Receiver)
    \/ TimerFires(Receiver)
    \/ Commit(Receiver)
    \/ DisconnectCompletes(Receiver)

DeletedSpec == Init /\ [][NextDeleted]_vars

\* A receiver that is handed the voice-chunks and voice-ends of two notes,
\* in any order and any number of times, and plays the notes it shows.
NextPlay ==
    \/ EnterRoom(Receiver)
    \/ RecvVoiceChunk(Receiver)
    \/ RecvVoiceEnd(Receiver)
    \/ \E n \in NoteIds : PlayPause(Receiver, n)
    \/ OnPlay(Receiver)
    \/ OnEnded(Receiver)
    \/ Commit(Receiver)
    \/ DisconnectCompletes(Receiver)

PlaySpec == InitTwo /\ [][NextPlay]_vars

\* One client that records and sends its notes over a transport that may
\* accept or reject each publish.
Sender == "p2"

NextSend ==
    \/ EnterRoom(Sender)
    \/ StartRecording(Sender)
    \/ HandleStopRecording(Sender)
    \/ StopRecording(Sender)
    \/ ProcessNote(Sender)
    \/ SendNote(Sender)
    \/ BroadcastCall(Sender)
    \/ PublishOk(Sender)
    \/ PublishRejects(Sender)
    \/ CacheTimerFires(Sender)
    \/ Commit(Sender)
    \/ DisconnectCompletes(Sender)

SendSpec == Init /\ [][NextSend]_vars

RecordsOnce(p) == clock[p] = 0 /\ StartRecording(p)

\* the only publishes that are rejected are those of a room that has
\* disconnected
PublishLost(p) == ~RoomConnected(p) /\ PublishRejects(p)

\* a receiver asks for chunks again, at most MaxAsk times
AskedAgain(p) == nRecv[p] < MaxAsk /\ RecvRequestChunks(p)

\* One client that sends one note over a transport that accepts every
\* publish of a connected room, and that is asked for chunks again.
NextResend ==
    \/ EnterRoom(Sender)
    \/ RecordsOnce(Sender)
    \/ HandleStopRecording(Sender)
    \/ StopRecording(Sender)
    \/ ProcessNote(Sender)
    \/ SendNote(Sender)
    \/ BroadcastCall(Sender)
    \/ PublishOk(Sender)
    \/ PublishLost(Sender)
    \/ CacheTimerFires(Sender)
    \/ AskedAgain(Sender)
    \/ ResendStep(Sender)
    \/ Commit(Sender)
    \/ DisconnectCompletes(Sender)

ResendSpec == Init /\ [][NextResend]_vars

\* The clips of the recording client: two notes as above, or a first clip
\* that is empty (the MediaRecorder delivered no data).
EmptyFirst == [n \in NoteIds |-> IF n = "n1" THEN <<>> ELSE <<255>>]

InitRecord == InitClient /\ noteBytes \in {TwoNotes, EmptyFirst}

\* A receiving client to which the transport also hands datagrams that
\* cannot be handled, between the datagrams of the two notes.
NextUnhandled ==
    \/ EnterRoom(Receiver)
    \/ RecvVoiceChunk(Receiver)
    \/ RecvVoiceEnd(Receiver)
    \/ RecvUnhandled(Receiver)
    \/ TimerFires(Receiver)
    \/ Commit(Receiver)
    \/ DisconnectCompletes(Receiver)

UnhandledSpec == Init /\ [][NextUnhandled]_vars

\* One client at its recording controls: it starts and stops recordings, is
\* stopped at the ceiling, discards or sends what it recorded; the transport
\* accepts every publish of a connected room, and one chunk of a remote note
\* reaches the client (InboundChunk).
InboundChunk(p) == nRecv[p] = 0 /\ RecvVoiceChunk(p)

NextRecord ==
    \/ EnterRoom(Sender)
    \/ InboundChunk(Sender)
    \/ StartRecording(Sender)
    \/ StartRecordingFails(Sender)
    \/ HandleStopRecording(Sender)
    \/ RecordingCeiling(Sender)
    \/ StopRecording(Sender)
    \/ DiscardNote(Sender)
    \/ ProcessNote(Sender)
    \/ SendNote(Sender)
    \/ BroadcastCall(Sender)
    \/ PublishOk(Sender)
    \/ PublishLost(Sender)
    \/ Commit(Sender)
    \/ DisconnectCompletes(Sender)

RecordSpec == InitRecord /\ [][NextRecord]_vars

\* The same client on a machine whose system time can be set back.
NextWallClock ==
    \/ EnterRoom(Sender)
    \/ StartRecording(Sender)
    \/ HandleStopRecording(Sender)
    \/ StopRecording(Sender)
    \/ ProcessNote(Sender)
    \/ SendNote(Sender)
    \/ BroadcastCall(Sender)
    \/ PublishOk(Sender)
    \/ PublishLost(Sender)
    \/ ClockSetBack(Sender)
    \/ Commit(Sender)
    \/ DisconnectCompletes(Sender)

WallClockSpec == InitRecord /\ [][NextWallClock]_vars

\* A peer that reassembled a note of p acknowledges it: its status-update
\* reaches p once p has handed the note's voice-end to the room (one
\* acknowledgement in a behaviour).
AckArrives(p) ==
    \E n \in NoteIds, st \in AckStatus :
        /\ nRecv[p] = 0
        /\ \E k \in 1..Len(sentLog[p]) : sentLog[p][k] = EndPacket(n)
        /\ Receives(p, StatusUpdate(n, st))
        /\ HandleStatusUpdate(p, StatusUpdate(n, st))
        /\ UNCHANGED <<inFlight, cacheTimers, relayed>>

\* One client that sends its notes over a transport that may reject a
\* publish, and that is sent an acknowledgement by a peer.
NextAck ==
    \/ EnterRoom(Sender)
    \/ StartRecording(Sender)
    \/ HandleStopRecording(Sender)
    \/ StopRecording(Sender)
    \/ ProcessNote(Sender)
    \/ SendNote(Sender)
    \/ BroadcastCall(Sender)
    \/ PublishOk(Sender)
    \/ PublishRejects(Sender)
    \/ AckArrives(Sender)
    \/ Commit(Sender)
    \/ DisconnectCompletes(Sender)

AckSpec == Init /\ [][NextAck]_vars

\* One sender and one receiver in the same room; the transport accepts
\* every publish and hands every packet to the other side, in order.  The
\* sender records and sends one note, the receiver plays what it shows.
NextPair ==
    \/ EnterRoom(Sender)
    \/ EnterRoom(Receiver)
    \/ RecordsOnce(Sender)
    \/ HandleStopRecording(Sender)
    \/ StopRecording(Sender)
    \/ ProcessNote(Sender)
    \/ SendNote(Sender)
    \/ BroadcastCall(Sender)
    \/ PublishOk(Sender)
    \/ PublishLost(Sender)
    \/ CacheTimerFires(Sender)
    \/ Relay(Sender, Receiver)
    \/ Relay(Receiver, Sender)
    \/ \E n \in NoteIds : PlayPause(Receiver, n)
    \/ OnPlay(Receiver)
    \/ OnEnded(Receiver)
    \/ Commit(Sender)
    \/ Commit(Receiver)
    \/ DisconnectCompletes(Sender)
    \/ DisconnectCompletes(Receiver)

PairSpec == Init /\ [][NextPair]_vars

\* Fairness: what is pending in the event loop, in the transport and at the
\* audio element happens.
FairPairSpec ==
    PairSpec /\ WF_vars(BroadcastCall(Sender)) /\ WF_vars(PublishOk(Sender))
             /\ WF_vars(PublishLost(Sender))
             /\ WF_vars(Relay(Sender, Receiver)) /\ WF_vars(Relay(Receiver, Sender))
             /\ WF_vars(OnPlay(Receiver))
             /\ WF_vars(Commit(Sender)) /\ WF_vars(Commit(Receiver))
             /\ WF_vars(DisconnectCompletes(Sender))
             /\ WF_vars(DisconnectCompletes(Receiver))

\* ------------------------------------------------------------------ properties
\* indexes of the notes with id n in a store
NotesWithId(notes, n) == {i \in 1..Len(notes) : notes[i].id = n}

\* the artifact of note n: its chunks 0..total-1 concatenated in index order, decoded
Artifact(n) == base64ToArrayBuffer(Flatten(WireChunks(n)))

\* the indexes of 0..total-1 that transfer t does not hold
Unfilled(t, total) ==
    {i \in 0..total - 1 : ~(t.present /\ i < Len(t.chunks) /\ t.chunks[i + 1] # Null)}

\* p handled a datagram in this step
Handled(p) == nRecv'[p] = nRecv[p] + 1

\* C1: when the voice-chunks and the voice-end of a note have all been
\* delivered to a fresh receiver, each once and in whatever order, the store
\* holds exactly one note with that id, and its artifact is the chunks
\* 0..n-1 concatenated in index order and decoded (the same for every order,
\* the in-order one included).
C1_OrderIndependence ==
    (nRecv[Receiver] > 0 /\ inFlight[Receiver] = {}) =>
        /\ Cardinality(NotesWithId(voiceNotes[Receiver], "n1")) = 1
        /\ \A i \in NotesWithId(voiceNotes[Receiver], "n1") :
              voiceNotes[Receiver][i].audio = Artifact("n1")

\* a note of three chunks reassembled although its voice-end arrived before
\* the last chunk did
C1_Witness ==
    /\ nRecv[Receiver] > 0 /\ inFlight[Receiver] = {}
    /\ WireTotal("n1") = 3
    /\ lastPacket[Receiver].type = "voice-chunk"
    /\ lastPacket[Receiver].index = 1
    /\ NotesWithId(voiceNotes[Receiver], "n1") # {}


\* the note with id n was added to p's store in this step
Materialized(p, n) ==
    Cardinality(NotesWithId(voiceNotes'[p], n)) > Cardinality(NotesWithId(voiceNotes[p], n))

\* C2: a note enters a store only in a step in which, counting the datagram
\* being handled, the voice-end of its id has been received and every index
\* 0..totalChunks-1 of its transfer holds a chunk; and every note in a store
\* carries the artifact of the complete chunk set.
C2_OnlyCompleteMaterializes ==
    /\ [](\A p \in Peers : \A i \in 1..Len(voiceNotes[p]) :
            voiceNotes[p][i].audio = Artifact(voiceNotes[p][i].id))
    /\ [][\A p \in Peers, n \in NoteIds :
            Materialized(p, n) =>
                LET t == receivedChunksRef[p][n]
                    packet == lastPacket'[p]
                IN  /\ Handled(p) /\ packet.noteId = n
                    /\ (t.present /\ t.hasEnd) \/ packet.type = "voice-end"
                    /\ \A i \in Unfilled(t, WireTotal(n)) :
                          /\ packet.type \in {"voice-chunk", "chunk-resend"}
                          /\ packet.index = i]_vars

\* the three-chunk note in the store, completed by a resent chunk
C2_Witness ==
    /\ NotesWithId(voiceNotes[Receiver], "n1") # {}
    /\ WireTotal("n1") = 3
    /\ lastPacket[Receiver].type = "chunk-resend"
    /\ lastPacket[Receiver].noteId = "n1"
    /\ nRecv[Receiver] = 4

\* C3: no store holds two notes with the same id.
C3_NoDuplicateNote ==
    \A p \in Peers, n \in NoteIds : Cardinality(NotesWithId(voiceNotes[p], n)) <= 1

\* C4: once note N is in the receiver's store, handling a voice-chunk,
\* chunk-resend or voice-end of N leaves the store as it is and broadcasts
\* nothing (no request-chunks, no status-update).
C4_IdempotentAfterCompletion ==
    [][\A p \in Peers, n \in NoteIds :
        (NotesWithId(voiceNotes[p], n) # {} /\ Handled(p) /\ lastPacket'[p].noteId = n
         /\ lastPacket'[p].type \in {"voice-chunk", "chunk-resend", "voice-end"})
        => (voiceNotes'[p] = voiceNotes[p] /\ sentLog'[p] = sentLog[p])]_vars

\* C5: handling a voice-end that leaves indexes unfilled broadcasts one
\* request-chunks whose missingIndexes are exactly the indexes of
\* 0..totalChunks-1 unfilled at that moment, in ascending order.
C5_RequestsExactlyMissing ==
    [][\A p \in Peers, n \in NoteIds :
        (Handled(p) /\ lastPacket'[p] = EndPacket(n)
         /\ Unfilled(receivedChunksRef[p][n], WireTotal(n)) # {})
        => sentLog'[p] = Append(sentLog[p],
                RequestChunks(n, Ascending(Unfilled(receivedChunksRef[p][n],
                                                    WireTotal(n)))))]_vars

\* chunk 1 of 3 held, voice-end handled, chunks 0 and 2 requested
C5_Witness ==
    /\ lastPacket[Receiver] = EndPacket("n1")
    /\ sentLog[Receiver] # <<>>
    /\ sentLog[Receiver][Len(sentLog[Receiver])] = RequestChunks("n1", <<0, 2>>)

\* C6: a transfer that has broadcast a request-chunks (it did so when it
\* armed its deadline) broadcasts no second one.
C6_OneRequestPerTransfer ==
    [][\A p \in Peers, n \in NoteIds :
        (Len(sentLog'[p]) > Len(sentLog[p])
         /\ sentLog'[p][Len(sentLog'[p])].type = "request-chunks"
         /\ sentLog'[p][Len(sentLog'[p])].noteId = n)
        => receivedChunksRef[p][n].timeoutId = 0]_vars

Oldest(p) == CHOOSE t \in timers[p] : \A u \in timers[p] : t.id <= u.id

\* a recovery deadline of p fired in this step
Fired(p) ==
    /\ timers[p] # {}
    /\ Oldest(p) \notin timers'[p]
    /\ nRecv'[p] = nRecv[p]
    /\ depsChanged'[p] = depsChanged[p]

\* C8: when the recovery deadline of a transfer fires while an index is
\* unfilled, the transfer (chunks and end metadata) is discarded, one
\* failure notification is shown, the store is unchanged, nothing is
\* broadcast, and the deadline the transfer had armed cannot fire again.
C8_AbandonOnDeadline ==
    [][\A p \in Peers :
        (Fired(p) /\ receivedChunksRef[p][Oldest(p).noteId].present
                  /\ Unfilled(receivedChunksRef[p][Oldest(p).noteId],
                              WireTotal(Oldest(p).noteId)) # {})
        => LET n == Oldest(p).noteId
           IN  /\ receivedChunksRef'[p][n] = NoTransfer
               /\ failedNotice'[p][n] = failedNotice[p][n] + 1
               /\ voiceNotes'[p] = voiceNotes[p]
               /\ sentLog'[p] = sentLog[p]
               /\ \A t \in timers'[p] : t.id # receivedChunksRef[p][n].timeoutId]_vars

\* voice-end, one of the three chunks resent, then the deadline fired
C8_Witness ==
    /\ nRecv[Receiver] = 2
    /\ lastPacket[Receiver].type = "chunk-resend"
    /\ lastPacket[Receiver].noteId = "n1"
    /\ failedNotice[Receiver]["n1"] = 1
    /\ receivedChunksRef[Receiver]["n1"] = NoTransfer
    /\ voiceNotes[Receiver] = <<>>
    /\ timers[Receiver] = {}

\* C9: a transfer whose voice-end has been received leads to the note being
\* in the store or to the failure notification for it.
C9_EndedTransferResolves ==
    \A n \in NoteIds :
        (receivedChunksRef[Receiver][n].present /\ receivedChunksRef[Receiver][n].hasEnd
         /\ failedNotice[Receiver][n] = 0)
        ~> (NotesWithId(voiceNotes[Receiver], n) # {} \/ failedNotice[Receiver][n] > 0)

\* sent < delivered < played
Rank(status) ==
    CASE status = "sent" -> 1 [] status = "delivered" -> 2 [] status = "played" -> 3
      [] OTHER -> 0

\* C10: the status of a note that stays in a store never moves backward in
\* sent < delivered < played.
C10_StatusMonotone ==
    [][\A p \in Peers : \A i \in 1..Len(voiceNotes[p]) :
        (Len(voiceNotes'[p]) = Len(voiceNotes[p])
         /\ voiceNotes'[p][i].id = voiceNotes[p][i].id)
        => Rank(voiceNotes'[p][i].status) >= Rank(voiceNotes[p][i].status)]_vars

\* the publishData calls of p's send loop for note n
EntriesOf(p, n) == {k \in 1..Len(pubLog[p]) : pubLog[p][k].noteId = n}

\* a publishData call for (type, index) of note n resolved before call k
OkBefore(p, n, type, index, k) ==
    \E j \in 1..k - 1 :
        /\ pubLog[p][j].noteId = n /\ pubLog[p][j].type = type
        /\ pubLog[p][j].index = index /\ pubLog[p][j].outcome = "ok"

\* C11: when every publish of a send was rejected and the send is over, the
\* note that was being sent is in the sender's store with status failed.
C11_ExhaustionFails ==
    \A n \in NoteIds :
        (send[Sender].pc = "idle" /\ EntriesOf(Sender, n) # {}
         /\ \A k \in EntriesOf(Sender, n) : pubLog[Sender][k].outcome = "rejected")
        => \E i \in NotesWithId(voiceNotes[Sender], n) :
               voiceNotes[Sender][i].status = "failed"

\* C12: the publishData calls for the voice-chunks of a note come in
\* non-decreasing index order, the calls that resolved in strictly increasing
\* order from 0, and a call for chunk i+1 is made only after a call for
\* chunk i has resolved (so none is made once chunk i was given up).
C12_ChunksInOrder ==
    \A n \in NoteIds : \A k \in EntriesOf(Sender, n) :
        LET e == pubLog[Sender][k]
        IN  e.type = "voice-chunk" =>
              /\ e.index \in 0..WireTotal(n) - 1
              /\ e.index > 0 => OkBefore(Sender, n, "voice-chunk", e.index - 1, k)
              /\ \A j \in 1..k - 1 :
                    (pubLog[Sender][j].noteId = n /\ pubLog[Sender][j].type = "voice-chunk")
                    => /\ pubLog[Sender][j].index <= e.index
                       /\ pubLog[Sender][j].outcome = "ok" => pubLog[Sender][j].index < e.index

\* chunk 0 went out at the second attempt, chunk 1 at the first, chunk 2 is
\* being published
C12_Witness ==
    /\ Len(pubLog[Sender]) = 4
    /\ pubLog[Sender][1] = [type |-> "voice-chunk", noteId |-> "n1", index |-> 0,
                            outcome |-> "rejected", delay |-> 0]
    /\ pubLog[Sender][2].outcome = "ok" /\ pubLog[Sender][2].index = 0
    /\ pubLog[Sender][3].outcome = "ok" /\ pubLog[Sender][3].index = 1
    /\ pubLog[Sender][4].outcome = "pending" /\ pubLog[Sender][4].index = 2

\* C13: a publishData call for the voice-end of a note is made only after a
\* call for each of its chunks 0..totalChunks-1 has resolved, and no call
\* for voice-end follows one that resolved.
C13_EndAfterAllChunks ==
    \A n \in NoteIds : \A k \in EntriesOf(Sender, n) :
        pubLog[Sender][k].type = "voice-end" =>
            /\ \A i \in 0..WireTotal(n) - 1 : OkBefore(Sender, n, "voice-chunk", i, k)
            /\ ~OkBefore(Sender, n, "voice-end", 0, k)

\* the voice-end of the three-chunk note went out at its third attempt
C13_Witness ==
    /\ Len(pubLog[Sender]) = 6
    /\ pubLog[Sender][4].type = "voice-end" /\ pubLog[Sender][4].outcome = "rejected"
    /\ pubLog[Sender][5].type = "voice-end" /\ pubLog[Sender][5].outcome = "rejected"
    /\ pubLog[Sender][6] = [type |-> "voice-end", noteId |-> "n1", index |-> 0,
                            outcome |-> "ok", delay |-> Backoff(2)]

\* C14: a note of the sender's own with status sent is in its store only
\* if a publishData call resolved for each of its chunks and for its
\* voice-end; a send that a chunk or the voice-end ended leaves no such note.
C14_SentOnlyIfAllWentOut ==
    \A i \in 1..Len(voiceNotes[Sender]) :
        LET note == voiceNotes[Sender][i]
            after == Len(pubLog[Sender]) + 1
        IN  (note.sender = "You" /\ note.status = "sent") =>
              /\ \A c \in 0..WireTotal(note.id) - 1 :
                    OkBefore(Sender, note.id, "voice-chunk", c, after)
              /\ OkBefore(Sender, note.id, "voice-end", 0, after)

\* the send of the first note ended at its voice-end and left no note; the
\* second note went out and is in the store as sent
C14_Witness ==
    /\ clock[Sender] = 2
    /\ NotesWithId(voiceNotes[Sender], "n1") = {}
    /\ \E k \in EntriesOf(Sender, "n1") :
          pubLog[Sender][k].type = "voice-end" /\ pubLog[Sender][k].outcome = "rejected"
    /\ \E i \in NotesWithId(voiceNotes[Sender], "n2") :
          voiceNotes[Sender][i].status = "sent" /\ voiceNotes[Sender][i].sender = "You"

\* C15: a receiver broadcasts status-update(delivered) for a note id only
\* in a step that puts the note into a store that did not hold it; a
\* completion for an id the store already holds broadcasts nothing.
C15_OneDeliveredAck ==
    [][\A p \in Peers, n \in NoteIds :
        (Len(sentLog'[p]) > Len(sentLog[p])
         /\ sentLog'[p][Len(sentLog'[p])] = StatusUpdate(n, "delivered"))
        => /\ NotesWithId(voiceNotes[p], n) = {}
           /\ \E i \in NotesWithId(voiceNotes'[p], n) :
                 voiceNotes'[p][i].status = "delivered"]_vars

\* C18: when the datagrams of two notes in flight at the same time have all
\* been handled, in whatever interleaving, both notes are in the store, each
\* with the artifact it has when delivered alone.
C18_BothComplete ==
    (nRecv[Receiver] > 0 /\ inFlight[Receiver] = {}) =>
        \A n \in NoteIds :
            /\ NotesWithId(voiceNotes[Receiver], n) # {}
            /\ \A i \in NotesWithId(voiceNotes[Receiver], n) :
                  voiceNotes[Receiver][i].audio = Artifact(n)

\* C16: once the sender's note is in the sender's store and the receiver
\* has started its playback, the note in the sender's store eventually has
\* status played.
C16_PlayedReachesSender ==
    (/\ player[Receiver].state = "playing" /\ player[Receiver].noteId = "n1"
     /\ NotesWithId(voiceNotes[Sender], "n1") # {})
    ~> (\E i \in NotesWithId(voiceNotes[Sender], "n1") :
            voiceNotes[Sender][i].status = "played")

\* playback of a note of p started in this step
Started(p) == player[p].state = "starting" /\ player'[p].state = "playing"

\* C17: when the playback of a received note that is not yet played starts,
\* the note has status played in the receiver's own store afterwards; and a
\* receiver broadcasts status-update(played) for a note at most once.
C17_PlayedOnFirstPlayback ==
    /\ [][\A p \in Peers :
            (Started(p) /\ player[p].sender # "You" /\ player[p].status # "played")
            => \A i \in NotesWithId(voiceNotes'[p], player[p].noteId) :
                  voiceNotes'[p][i].status = "played"]_vars
    /\ [](\A p \in Peers, n \in NoteIds :
            Cardinality({k \in 1..Len(sentLog[p]) :
                            sentLog[p][k] = StatusUpdate(n, "played")}) <= 1)

\* the voice-end of note n has gone out from p
EndWentOut(p, n) == \E k \in 1..Len(sentLog[p]) : sentLog[p][k] = EndPacket(n)

\* a request-chunks for a note that p has sent and whose cache entry p holds
\* is handed to p in this step
AskedHeld(p) ==
    /\ nRecv'[p] = nRecv[p] + 1
    /\ lastPacket'[p].type = "request-chunks"
    /\ sentChunksCacheRef[p][lastPacket'[p].noteId].present
    /\ EndWentOut(p, lastPacket'[p].noteId)

\* the loop of the request-chunks handler of p takes its next turn in this step
ResendTurn(p) ==
    /\ resend[p].active
    /\ resend'[p] # resend[p]
    /\ EndWentOut(p, resend[p].noteId)

\* the chunk-resend of note n for index i, with the text and the total of
\* the note as it was sent
OriginalResend(n, i) == ChunkResend(n, i, WireChunks(n)[i + 1], WireTotal(n))

\* C19: a participant that holds the cache entry of a requested note it has
\* sent emits one chunk-resend for each requested index, with the chunk text
\* sent at that index and the original chunk count: for the first index when
\* the request is handled, and for each further index at its turn of the loop.
C19_ResendPerRequestedIndex ==
    [][\A p \in Peers :
         /\ AskedHeld(p) =>
               sentLog'[p] = Append(sentLog[p],
                   OriginalResend(lastPacket'[p].noteId, Head(lastPacket'[p].missingIndexes)))
         /\ ResendTurn(p) =>
               sentLog'[p] = Append(sentLog[p],
                   OriginalResend(resend[p].noteId, Head(resend[p].todo)))]_vars

\* the retention timer of the cache entry of note n fires in this step
RetentionEnds(p, n) ==
    /\ \E t \in cacheTimers[p] \ cacheTimers'[p] :
          t.noteId = n /\ t.id = sentChunksCacheRef[p][n].timeoutId
    /\ room'[p] = room[p]
    /\ depsChanged'[p] = depsChanged[p]

\* C20: after the send has completed and the note is in the sender's store,
\* the cache entry of the note, in a room whose state is still connected,
\* is removed only by its retention timer.
C20_EntryKeptUntilRetentionEnds ==
    [][\A p \in Peers, n \in NoteIds :
         (/\ sentChunksCacheRef[p][n].present
          /\ ~sentChunksCacheRef'[p][n].present
          /\ NotesWithId(voiceNotes[p], n) # {}
          /\ RoomConnected(p))
         => RetentionEnds(p, n)]_vars

\* C21: once the delete-note of a note has been handled by a peer, the
\* peer's store does not hold the note, whichever of the note's other
\* datagrams were handled before it and whichever after it.
C21_DeletedStaysDeleted ==
    (nRecv[Receiver] > 0 /\ DeleteNote("n1") \notin inFlight[Receiver])
    => NotesWithId(voiceNotes[Receiver], "n1") = {}

\* C22: in every state at most one note of a store has isPlaying = true.
C22_ExclusivePlayback ==
    \A p \in Peers :
        Cardinality({i \in 1..Len(voiceNotes[p]) : voiceNotes[p][i].isPlaying}) <= 1

\* the changes of recordingStatus the recording controller may make
RecordingEdges ==
    {<<"idle", "recording">>, <<"recording", "reviewing">>, <<"reviewing", "processing">>,
     <<"processing", "sending">>, <<"sending", "idle">>, <<"sending", "failed">>,
     <<"reviewing", "idle">>, <<"recording", "idle">>}

\* C23: the status of the recording controller changes only along idle ->
\* recording -> reviewing -> processing -> sending -> idle or failed, from
\* reviewing to idle and from recording to idle.
C23_RecordingTransitions ==
    [][\A p \in Peers :
         recorder'[p].status # recorder[p].status
         => <<recorder[p].status, recorder'[p].status>> \in RecordingEdges]_vars

\* C24: discarding at reviewing empties the pending recording, returns the
\* controller to idle and hands the room no voice-chunk and no voice-end;
\* the note store, the inbound transfers and the outbound cache are as they
\* were, after the handler and after the re-render it causes.
DiscardStep(p) == recorder[p].status = "reviewing" /\ recorder'[p].status = "idle"

\* the commit that renders a discard: the recording that was rendered is
\* gone, nothing else is pending and no send has taken place
DiscardRendered(p) ==
    /\ depsChanged[p] /\ ~depsChanged'[p]
    /\ renderedRecording[p] /\ ~lastRecording[p]
    /\ recorder[p].status = "idle" /\ clock[p] = 0
    /\ voiceNotes[p] = renderedNotes[p]

C24_DiscardFrame ==
    [][\A p \in Peers :
          /\ DiscardStep(p) => ~lastRecording'[p]
          /\ (DiscardStep(p) \/ DiscardRendered(p)) =>
                 /\ sentLog'[p] = sentLog[p] /\ pubLog'[p] = pubLog[p]
                 /\ voiceNotes'[p] = voiceNotes[p]
                 /\ receivedChunksRef'[p] = receivedChunksRef[p]
                 /\ sentChunksCacheRef'[p] = sentChunksCacheRef[p]]_vars

\* C25: a recording stopped at the ceiling ends as one stopped by hand: when
\* its stop event has been handled the controller is in reviewing, the clip
\* is the pending recording, and the peers of a connected room have been
\* told 'idle'.
CeilingStopEnds(p) == recorder[p].onstop = "dropped" /\ recorder'[p].onstop = "none"

C25_CeilingStopLikeManualStop ==
    [][\A p \in Peers :
          CeilingStopEnds(p) =>
              /\ recorder'[p].status = "reviewing"
              /\ lastRecording'[p]
              /\ (RoomConnected(p) => recorder'[p].told = "idle")]_vars

\* C26: a send never ends at effect processing: whatever applyVoiceEffect
\* met (an empty clip, a decode or render failure), the step that takes its
\* result goes on to the send loop with the clip cut into chunks and cached,
\* and a failed effect sends the original clip.
EffectReturns(p) == send[p].pc = "processing" /\ send'[p].pc # "processing"

C26_EffectFailureSendsOriginal ==
    [][\A p \in Peers :
          EffectReturns(p) =>
              LET n == send'[p].noteId
              IN  /\ send'[p].pc = "call" /\ recorder'[p].status = "sending"
                  /\ n \in NoteIds
                  /\ send'[p].chunks = ChunksOf(arrayBufferToBase64(noteBytes[n]))
                  /\ sentChunksCacheRef'[p][n].present
                  /\ sentChunksCacheRef'[p][n].chunks = send'[p].chunks
                  /\ (noteBytes[n] = <<>> => send'[p].blob = "original")]_vars

\* The effect failed on a clip with content, and the first chunk of the
\* original clip has been handed to the room.
C26_Witness ==
    /\ send[Sender].blob = "original" /\ send[Sender].noteId \in NoteIds
    /\ noteBytes[send[Sender].noteId] # <<>>
    /\ send[Sender].index = 1
    /\ Len(sentLog[Sender]) = 1 /\ sentLog[Sender][1].type = "voice-chunk"

\* C27: a datagram that does not parse, or whose type has no case, is
\* dropped: handling it leaves the note store, every inbound transfer and
\* its timer, and the outbound cache as they were, hands the room nothing,
\* and asks for no re-render, so an open transfer can go on to complete.
UnhandledStep(p) == nRecv'[p] = nRecv[p] + 1 /\ lastPacket'[p] \in Unhandled

C27_UnhandledDatagramDropped ==
    [][\A p \in Peers :
          UnhandledStep(p) =>
              /\ voiceNotes'[p] = voiceNotes[p]
              /\ receivedChunksRef'[p] = receivedChunksRef[p]
              /\ timers'[p] = timers[p]
              /\ sentChunksCacheRef'[p] = sentChunksCacheRef[p]
              /\ sentLog'[p] = sentLog[p]
              /\ depsChanged'[p] = depsChanged[p] /\ room'[p] = room[p]]_vars

\* A datagram has just been dropped while the transfer of n1 held two of
\* its three chunks.
C27_Witness ==
    /\ lastPacket[Receiver] \in Unhandled
    /\ receivedChunksRef[Receiver]["n1"].present
    /\ Cardinality({i \in 0..(WireTotal("n1") - 1) :
                        receivedChunksRef[Receiver]["n1"].chunks[i + 1] # Null}) = 2

\* C28: for every buffer b a sender encodes, decoding the encoded text gives
\* b back, and the text built block by block (chunkSize bytes at a time) is
\* the text btoa gives for b as a whole.
C28_Base64RoundTrip ==
    \A n \in NoteIds :
        /\ base64ToArrayBuffer(arrayBufferToBase64(noteBytes[n])) = noteBytes[n]
        /\ arrayBufferToBase64(noteBytes[n]) = btoa(noteBytes[n])

\* A buffer of 5 bytes (not a multiple of 3, three blocks of which the last
\* is partial) went through the encoder on the remote side and through the
\* decoder on the receiving side.
C28_Witness ==
    /\ Len(noteBytes["n1"]) = 5 /\ Len(noteBytes["n1"]) > chunkSize
    /\ Len(WireText("n1")) = 8 /\ WireText("n1")[8] = Pad
    /\ \E i \in 1..Len(voiceNotes[Receiver]) :
           voiceNotes[Receiver][i].id = "n1" /\ voiceNotes[Receiver][i].audio = noteBytes["n1"]

\* C29: for every text t the sender cuts (an encoded text, or any beginning
\* of one, so that lengths that are not a multiple of CHUNK_SIZE occur),
\* there are ceil(len(t) / CHUNK_SIZE) chunks, every chunk but the last has
\* CHUNK_SIZE characters, no chunk is empty, and the chunks in index order
\* concatenate to t.
ChunkingComplete(t) ==
    LET chunks == ChunksOf(t)
        total == TotalChunks(t)
    IN  /\ Len(chunks) = total
        /\ total * CHUNK_SIZE >= Len(t)
        /\ (total > 0 => (total - 1) * CHUNK_SIZE < Len(t))
        /\ \A k \in 1..(total - 1) : Len(chunks[k]) = CHUNK_SIZE
        /\ \A k \in 1..total : chunks[k] # <<>> /\ Len(chunks[k]) <= CHUNK_SIZE
        /\ Flatten(chunks) = t

C29_ChunkingComplete ==
    \A len \in 0..Len(WireText("n1")) : ChunkingComplete(SubSeq(WireText("n1"), 1, len))

\* The remote sender has cut a text of three chunks and put them, with the
\* voice-end, on the wire.
C29_Witness ==
    /\ WireTotal("n1") = 3
    /\ ChunkPackets("n1") \subseteq inFlight[Receiver]
    /\ Cardinality(ChunkPackets("n1")) = 3
    /\ nRecv[Receiver] = 0

\* C30: the note id a send draws is new: no earlier send of the participant
\* has handed the room a packet with that id, and no note with that id is in
\* its store.
DrawsNoteId(p) == send[p].pc = "processing" /\ send'[p].pc = "call"

C30_NoteIdsUnique ==
    [][\A p \in Peers :
          DrawsNoteId(p) =>
              /\ \A i \in 1..Len(sentLog[p]) : sentLog[p][i].noteId # send'[p].noteId
              /\ NotesWithId(voiceNotes[p], send'[p].noteId) = {}]_vars

\* C31: an inbound transfer never has two live recovery timers: at any time
\* at most one armed deadline carries a given note id.
LiveTimers(p, n) == {t \in timers[p] : t.noteId = n}

C31_OneLiveTimer ==
    \A p \in Peers : \A n \in NoteIds : Cardinality(LiveTimers(p, n)) <= 1

\* C32: one broadcastPacket call makes at most 3 publishData calls, the
\* first at once and the next one 2^k * 100 ms after the k-th rejection
\* (k = 1, 2), each after a rejection of the one before; nothing is
\* published for the packet after a call that resolved or after the third
\* rejection, which ends the send; and a call on a room that is not
\* connected publishes nothing and ends the send.
SamePacket(e, f) == e.type = f.type /\ e.noteId = f.noteId /\ e.index = f.index

AttemptNo(log, i) == Cardinality({j \in 1..i : SamePacket(log[j], log[i])})

AttemptsAsSpecified(log) ==
    \A i \in 1..Len(log) :
        LET k == AttemptNo(log, i)
        IN  /\ k <= 3
            /\ log[i].delay = (IF k = 1 THEN 0 ELSE IF k = 2 THEN 200 ELSE 400)
            /\ (k > 1 => SamePacket(log[i - 1], log[i]) /\ log[i - 1].outcome = "rejected")
            /\ (log[i].outcome = "pending" => i = Len(log))
            /\ (i < Len(log) /\ log[i].outcome = "rejected" /\ k = 3
                    => log[i + 1].noteId # log[i].noteId)

C33_FailedTerminal ==
    [][\A p \in Peers : \A n \in NoteIds :
          (\E i \in NotesWithId(voiceNotes[p], n) : voiceNotes[p][i].status = "failed")
          => \A j \in NotesWithId(voiceNotes'[p], n) : voiceNotes'[p][j].status = "failed"]_vars

\* C35: a send that fails (the send routine ends without adding its note)
\* leaves the status of every note in the sender's store as it was.
SendEndsFailed(p) ==
    /\ send[p].pc \in {"call", "publish"} /\ send'[p].pc = "idle"
    /\ NotesWithId(voiceNotes'[p], send[p].noteId) = NotesWithId(voiceNotes[p], send[p].noteId)

C35_FailedSendLeavesOthers ==
    [][\A p \in Peers :
          SendEndsFailed(p) =>
              /\ Len(voiceNotes'[p]) = Len(voiceNotes[p])
              /\ \A i \in 1..Len(voiceNotes[p]) :
                     voiceNotes'[p][i].status = voiceNotes[p][i].status]_vars

\* C34: a delete-note for an id that is not in the store changes nothing:
\* the notes, the inbound transfers and the outbound cache are as they were
\* and nothing is handed to the room, after the handler and after the
\* re-render it causes.
DeleteUnknownStep(p) ==
    /\ nRecv'[p] = nRecv[p] + 1
    /\ lastPacket'[p].type = "delete-note"
    /\ NotesWithId(voiceNotes[p], lastPacket'[p].noteId) = {}

\* the commit that renders such a delete-note: the store was and is empty,
\* and the only datagram handled before it left a transfer open
DeleteUnknownRendered(p) ==
    /\ depsChanged[p] /\ ~depsChanged'[p]
    /\ nRecv[p] = 2 /\ lastPacket[p].type = "delete-note"
    /\ voiceNotes[p] = <<>> /\ renderedNotes[p] = <<>>

C34_DeleteUnknownNoOp ==
    [][\A p \in Peers :
          (DeleteUnknownStep(p) \/ DeleteUnknownRendered(p)) =>
              /\ voiceNotes'[p] = voiceNotes[p]
              /\ receivedChunksRef'[p] = receivedChunksRef[p]
              /\ sentChunksCacheRef'[p] = sentChunksCacheRef[p]
              /\ sentLog'[p] = sentLog[p]]_vars

\* C36: while the page stays mounted (no behaviour here ends the session), a
\* re-render after a change of the note store or of the pending recording
\* leaves the room connected and the inbound transfers, their timers and the
\* outbound cache with its timers as they were.
Rerendered(p) == depsChanged[p] /\ ~depsChanged'[p]

C36_NoTeardownOnRerender ==
    [][\A p \in Peers :
          Rerendered(p) =>
              /\ room'[p] = room[p]
              /\ receivedChunksRef'[p] = receivedChunksRef[p]
              /\ timers'[p] = timers[p]
              /\ sentChunksCacheRef'[p] = sentChunksCacheRef[p]
              /\ cacheTimers'[p] = cacheTimers[p]]_vars

\* C37: every inbound transfer that is created is destroyed in the end: an
\* open transfer leads to the transfer being gone (by completion, by expiry,
\* or in any other way).
C37_TransferEnds ==
    \A n \in NoteIds :
        receivedChunksRef[Receiver][n].present ~> ~receivedChunksRef[Receiver][n].present

\* C38: a delivery acknowledgement is not lost: once the sender has handled
\* status-update(n, delivered) and its send of n is over with n in its
\* store, n has status delivered or played.
C38_AckNotLost ==
    \A n \in NoteIds :
        (/\ lastPacket[Sender] = StatusUpdate(n, "delivered")
         /\ send[Sender].noteId # n
         /\ NotesWithId(voiceNotes[Sender], n) # {})
        => \A i \in NotesWithId(voiceNotes[Sender], n) :
               voiceNotes[Sender][i].status \in {"delivered", "played"}

\* C39: a status-update datagram from another participant leaves the status
\* of every note the receiver holds from a remote sender as it was.
C39_PeerStatusLeavesCopy ==
    [][(/\ nRecv'[Receiver] = nRecv[Receiver] + 1
        /\ lastPacket'[Receiver].type = "status-update")
       => \A i \in 1..Len(voiceNotes[Receiver]) :
              (/\ voiceNotes[Receiver][i].sender # "You"
               /\ Len(voiceNotes'[Receiver]) = Len(voiceNotes[Receiver]))
              => voiceNotes'[Receiver][i].status = voiceNotes[Receiver][i].status]_vars

====
